---- MODULE Spec2Model ----
(***************************************************************************)
(* Tracery: distributed breakpoints with request-scoped freezes.           *)
(*                                                                         *)
(* The module models                                                       *)
(*   - the control plane (control-plane/main.go): breakpoint registry,     *)
(*     the /check, /snapshot handlers and the freeze RPCs;                 *)
(*   - the freeze coordinator (control-plane/freeze_coordinator.go,        *)
(*     lines 251-369, the coordinator main.go is written against);         *)
(*   - the sidecar filter (envoy-filter/main.go, lines 437-673);           *)
(*   - the two-phase coordinator draft (freeze_coordinator.go, lines       *)
(*     1-249) as a second specification, SpecTwoPhase.                     *)
(*                                                                         *)
(* Text that the code takes apart or puts together (header names and       *)
(* values, endpoints, condition keys and values, trace ids) is a sequence  *)
(* of one-character strings; service names, override bodies and protocol   *)
(* words, which are only compared, are strings.                            *)
(***************************************************************************)
EXTENDS Integers, Sequences, FiniteSets, TLC

(***************************************************************************)
(* Text helpers.                                                           *)
(***************************************************************************)

\* strings.HasPrefix(s, p)
HasPrefix(s, p) == Len(s) >= Len(p) /\ SubSeq(s, 1, Len(p)) = p

\* strings.TrimPrefix(s, p)
TrimPrefix(s, p) == IF HasPrefix(s, p) THEN SubSeq(s, Len(p) + 1, Len(s)) ELSE s

\* strings.Contains(s, sub)
Contains(s, sub) ==
    \E i \in 0..(Len(s) - Len(sub)) : SubSeq(s, i + 1, i + Len(sub)) = sub

\* n copies of the character c
Rep(c, n) == [i \in 1..n |-> c]

DigitChar(d) ==
    CASE d = 0 -> "0" [] d = 1 -> "1" [] d = 2 -> "2" [] d = 3 -> "3"
      [] d = 4 -> "4" [] d = 5 -> "5" [] d = 6 -> "6" [] d = 7 -> "7"
      [] d = 8 -> "8" [] OTHER -> "9"

RECURSIVE Digits(_)
\* decimal digits of a non-negative integer, as a sequence of characters
Digits(n) == IF n < 10 THEN <<DigitChar(n)>>
             ELSE Append(Digits(n \div 10), DigitChar(n % 10))

RECURSIVE Join(_)
\* the string spelled by a sequence of characters
Join(cs) == IF cs = <<>> THEN "" ELSE Head(cs) \o Join(Tail(cs))

sHeaderDot == <<"h", "e", "a", "d", "e", "r", ".">>
sBodyDot   == <<"b", "o", "d", "y", ".">>
sXOrig     == <<"x", "-", "o", "r", "i", "g", "-">>
sDot       == <<".">>

(***************************************************************************)
(* JSON values, as encoding/json decodes them into interface{}:            *)
(*   [k |-> "obj", v |-> function from keys to values]                     *)
(*   [k |-> "arr", v |-> sequence of values]                               *)
(*   [k |-> "str", v |-> text], [k |-> "num", v |-> Nat],                  *)
(*   [k |-> "bool", v |-> BOOLEAN], [k |-> "null"]                         *)
(* A request body is a JSON value, or the marker Invalid (bytes that do    *)
(* not parse), or the marker EmptyBody (no bytes).                         *)
(***************************************************************************)
Invalid   == [k |-> "invalid"]
EmptyBody == [k |-> "empty"]

JObj(f)  == [k |-> "obj", v |-> f]
JNum(n)  == [k |-> "num", v |-> n]

\* fmt.Sprintf("%v", v) for the float64 values of the model (naturals)
FormatFloat(n) == Digits(n)

\* fmt.Sprintf("%v", v) for bool
FormatBool(b) == IF b THEN <<"t", "r", "u", "e">> ELSE <<"f", "a", "l", "s", "e">>

RECURSIVE flattenPairs(_, _)
\* The writes flattenJSON performs, as the set of <<key, value>> pairs it
\* assigns to result[...] (main.go 27-51).
flattenPairs(data, prefix) ==
    CASE data.k = "obj" ->
           UNION { flattenPairs(data.v[key],
                                IF prefix # <<>> THEN prefix \o sDot \o key ELSE key)
                   : key \in DOMAIN data.v }
      [] data.k = "str"  -> {<<prefix, data.v>>}
      [] data.k = "num"  -> {<<prefix, FormatFloat(data.v)>>}
      [] data.k = "bool" -> {<<prefix, FormatBool(data.v)>>}
      [] data.k = "arr"  ->
           UNION { flattenPairs(data.v[i], prefix \o sDot \o Digits(i - 1))
                   : i \in DOMAIN data.v }
      [] OTHER -> {}

\* The maps flattenJSON can leave in result: one value per written key; when
\* two leaves write the same key the map iteration order decides which stays.
flattenJSON(data) ==
    LET ps   == flattenPairs(data, <<>>)
        keys == {p[1] : p \in ps}
    IN  {f \in [keys -> {p[2] : p \in ps}] : \A key \in keys : <<key, f[key]>> \in ps}

(***************************************************************************)
(* Inputs of the model.                                                    *)
(***************************************************************************)

\* A W3C traceparent value whose trace-id field is 32 copies of c.
Traceparent(c) ==
    <<"0", "0", "-">> \o Rep(c, 32) \o <<"-">> \o Rep("b", 16) \o <<"-", "0", "1">>

sTraceparent == <<"t", "r", "a", "c", "e", "p", "a", "r", "e", "n", "t">>
sUserType    == <<"u", "s", "e", "r", "-", "t", "y", "p", "e">>
sAmount      == <<"a", "m", "o", "u", "n", "t">>
sVip         == <<"v", "i", "p">>
sOrder       == <<"/", "o", "r", "d", "e", "r">>
sApiOrder    == <<"/", "a", "p", "i", "/", "o", "r", "d", "e", "r", "/", "1">>

TraceA == Rep("a", 32)
TraceB == Rep("b", 32)

\* The trace ids the users of the RPC surface name.
TraceIds == {TraceA}

\* The override bodies a release may carry ("" is no override).
Overrides == {"", "FIXED"}

\* The inbound requests a sidecar sees.  headers is the list of non-pseudo
\* header fields, hasBody tells whether a body follows the headers.
Requests ==
    [ order  |-> [headers   |-> <<[name |-> sTraceparent, value |-> Traceparent("a")],
                                  [name |-> sUserType, value |-> sVip]>>,
                  method    |-> "POST", path |-> sApiOrder, authority |-> "svc-a",
                  hasBody   |-> TRUE,
                  body      |-> JObj([x \in {sAmount} |-> JNum(999)])],
      health |-> [headers   |-> <<[name |-> sTraceparent, value |-> Traceparent("a")]>>,
                  method    |-> "GET", path |-> <<"/", "h", "e", "a", "l", "t", "h">>, authority |-> "svc-a",
                  hasBody   |-> FALSE,
                  body      |-> EmptyBody],
      plain  |-> [headers   |-> <<[name |-> <<"x", "-", "t", "r", "a", "c", "e", "-", "i", "d">>, value |-> TraceA]>>,
                  method    |-> "POST", path |-> sApiOrder, authority |-> "svc-a",
                  hasBody   |-> TRUE,
                  body      |-> JObj([x \in {sAmount} |-> JNum(999)])],
      short  |-> [headers   |-> <<[name |-> sTraceparent,
                                   value |-> <<"0", "0", "-">> \o Rep("a", 20)]>>,
                  method    |-> "GET", path |-> sApiOrder, authority |-> "svc-a",
                  hasBody   |-> FALSE,
                  body      |-> EmptyBody],
      \* a header and a body leaf with the same short key
      collide |-> [headers  |-> <<[name |-> sTraceparent, value |-> Traceparent("a")],
                                  [name |-> sAmount, value |-> Digits(5)]>>,
                  method    |-> "POST", path |-> sApiOrder, authority |-> "svc-a",
                  hasBody   |-> TRUE,
                  body      |-> JObj([x \in {sAmount} |-> JNum(999)])],
      \* other values under the same keys
      cheap  |-> [headers   |-> <<[name |-> sTraceparent, value |-> Traceparent("a")],
                                  [name |-> sUserType, value |-> <<"s", "t", "d">>]>>,
                  method    |-> "POST", path |-> sApiOrder, authority |-> "svc-a",
                  hasBody   |-> TRUE,
                  body      |-> JObj([x \in {sAmount} |-> JNum(5)])],
      \* a body that is not JSON
      badjson |-> [headers  |-> <<[name |-> sTraceparent, value |-> Traceparent("a")],
                                  [name |-> sUserType, value |-> sVip]>>,
                  method    |-> "POST", path |-> sApiOrder, authority |-> "svc-a",
                  hasBody   |-> TRUE,
                  body      |-> Invalid],
      \* a header whose name starts with "body.", and a body that is not JSON
      hdrbody |-> [headers  |-> <<[name |-> sTraceparent, value |-> Traceparent("a")],
                                  [name |-> sBodyDot \o sAmount, value |-> Digits(999)]>>,
                  method    |-> "POST", path |-> sApiOrder, authority |-> "svc-a",
                  hasBody   |-> TRUE,
                  body      |-> Invalid],
      \* a body with an object named "header"
      bodyhdr |-> [headers  |-> <<[name |-> sTraceparent, value |-> Traceparent("a")]>>,
                  method    |-> "POST", path |-> sApiOrder, authority |-> "svc-a",
                  hasBody   |-> TRUE,
                  body      |-> JObj([x \in {<<"h", "e", "a", "d", "e", "r">>} |->
                                        JObj([y \in {sUserType} |-> [k |-> "str", v |-> sVip]])])],
      \* a request without an authority
      noauth |-> [headers   |-> <<[name |-> sTraceparent, value |-> Traceparent("a")]>>,
                  method    |-> "POST", path |-> sApiOrder, authority |-> "",
                  hasBody   |-> TRUE,
                  body      |-> JObj([x \in {sAmount} |-> JNum(999)])] ]

\* The ids uuid.New() hands out.
BpIds == {"bp1"}

\* The request contexts (one per in-flight request) of the sidecars: r1 is
\* the first hop of the trace and sees every kind of request, r2 is a later
\* hop of the same trace and sees the order request.
Slots == {"r1", "r2"}

SlotRequests == [r1 |-> {"order", "health", "plain", "short"}, r2 |-> {"order"}]

(***************************************************************************)
(* Go map helpers.                                                         *)
(***************************************************************************)
EmptyMap == [x \in {} |-> <<>>]

\* m[k] = v
Put(m, k, v) == [x \in (DOMAIN m) \cup {k} |-> IF x = k THEN v ELSE m[x]]

\* delete(m, k)
Delete(m, k) == [x \in (DOMAIN m) \ {k} |-> m[x]]

\* the orders in which a range loop may visit the keys in S
Orders(S) ==
    {o \in [1..Cardinality(S) -> S] : \A i, j \in DOMAIN o : o[i] = o[j] => i = j}

UpperCase == <<"A", "B", "C", "D", "E", "F", "G", "H", "I", "J", "K", "L", "M",
               "N", "O", "P", "Q", "R", "S", "T", "U", "V", "W", "X", "Y", "Z">>

\* strings.ToLower
ToLower(s) ==
    LET LowerCase == <<"a", "b", "c", "d", "e", "f", "g", "h", "i", "j", "k", "l", "m",
                       "n", "o", "p", "q", "r", "s", "t", "u", "v", "w", "x", "y", "z">>
    IN  [i \in DOMAIN s |->
            IF \E j \in DOMAIN UpperCase : UpperCase[j] = s[i]
            THEN LowerCase[CHOOSE j \in DOMAIN UpperCase : UpperCase[j] = s[i]]
            ELSE s[i]]

(***************************************************************************)
(* Sidecar: trace identity and the /check call (envoy-filter/main.go).     *)
(***************************************************************************)

\* proxywasm.GetHttpRequestHeaders(): pseudo-headers first, then the fields.
GetHttpRequestHeaders(rq) ==
    << [name |-> <<":", "m", "e", "t", "h", "o", "d">>, value |-> <<>>],
       [name |-> <<":", "p", "a", "t", "h">>, value |-> rq.path],
       [name |-> <<":", "a", "u", "t", "h", "o", "r", "i", "t", "y">>, value |-> <<>>] >>
    \o rq.headers

\* proxywasm.GetHttpRequestHeader(name): the value and whether it is there.
GetHttpRequestHeader(rq, name) ==
    LET idx == {i \in DOMAIN rq.headers : rq.headers[i].name = name}
    IN  IF idx = {} THEN [ok |-> FALSE, value |-> <<>>]
        ELSE [ok |-> TRUE,
              value |-> rq.headers[CHOOSE i \in idx : \A j \in idx : i <= j].value]

TraceparentMinLen == 35
TraceIdFrom      == 3

\* httpContext.extractTraceID: val[3:35] of a traceparent of 35 bytes or more.
extractTraceID(rq) ==
    LET h == GetHttpRequestHeader(rq, sTraceparent)
    IN  IF h.ok /\ Len(h.value) >= TraceparentMinLen
        THEN SubSeq(h.value, TraceIdFrom + 1, TraceparentMinLen)
        ELSE <<>>

\* The /check request callControlPlane dispatches for a context with the
\* given trace id: metadata headers, the x-orig- copies of the cached
\* headers, the body read from the buffer ("{}" when none can be read).
CheckRequest(traceID, rq) ==
    LET cached == GetHttpRequestHeaders(rq)
        keep   == SelectSeq(cached, LAMBDA h : ~HasPrefix(ToLower(h.name), <<":">>))
    IN  [traceID  |-> traceID,
         service  |-> rq.authority,
         endpoint |-> rq.path,
         orig     |-> [i \in DOMAIN keep |->
                         [name |-> sXOrig \o ToLower(keep[i].name), value |-> keep[i].value]],
         body     |-> IF rq.hasBody THEN rq.body ELSE JObj(EmptyMap)]

(***************************************************************************)
(* Control plane: the match engine of the /check handler (main.go 70-137). *)
(***************************************************************************)

\* r.Header of the /check request, lower-cased: for each name the first value.
HeaderMap(q) ==
    LET names == {q.orig[i].name : i \in DOMAIN q.orig}
    IN  [n \in names |->
            q.orig[CHOOSE i \in DOMAIN q.orig :
                      /\ q.orig[i].name = n
                      /\ \A j \in DOMAIN q.orig : q.orig[j].name = n => i <= j].value]

RECURSIVE ProcessHeaders(_, _, _)
\* Loop A: strict key always written, short key only when not yet present.
ProcessHeaders(order, H, data) ==
    IF order = <<>> THEN data
    ELSE LET k        == Head(order)
             cleanKey == TrimPrefix(k, sXOrig)
             d1       == Put(data, sHeaderDot \o cleanKey, H[k])
             d2       == IF cleanKey \in DOMAIN d1 THEN d1 ELSE Put(d1, cleanKey, H[k])
         IN  ProcessHeaders(Tail(order), H,
                            IF HasPrefix(k, sXOrig) THEN d2 ELSE data)

RECURSIVE ProcessBody(_, _, _)
RECURSIVE ProcessBody_KeepShort(_, _, _)
\* Loop B writing the short key only when it is not yet present.
ProcessBody_KeepShort(order, flatBody, data) ==
    IF order = <<>> THEN data
    ELSE LET k  == Head(order)
             d1 == Put(data, sBodyDot \o k, flatBody[k])
         IN  ProcessBody_KeepShort(Tail(order), flatBody,
                                   IF k \in DOMAIN d1 THEN d1
                                   ELSE Put(d1, k, flatBody[k]))

\* Loop B: strict and short key both written for every flattened leaf.
ProcessBody(order, flatBody, data) ==
    IF order = <<>> THEN data
    ELSE LET k == Head(order)
         IN  ProcessBody(Tail(order), flatBody,
                         Put(Put(data, sBodyDot \o k, flatBody[k]), k, flatBody[k]))

\* The searchableData maps the handler may build for a query (one per
\* iteration order of the header map and of the flattened body).
SearchableData(q) ==
    LET H  == HeaderMap(q)
        hs == {ProcessHeaders(o, H, EmptyMap) : o \in Orders(DOMAIN H)}
        \* json.NewDecoder(r.Body).Decode(&bodyMap) succeeds for an object
        \* and for null
        DecodesToMap == q.body.k \in {"obj", "null"}
    IN  IF DecodesToMap
        THEN UNION { UNION { {ProcessBody(o, f, d) : o \in Orders(DOMAIN f)}
                             : f \in flattenJSON(q.body) } : d \in hs }
        ELSE hs

\* The condition loop: every (k, expectedVal) is present and equal.
ConditionsMet(bp, data) ==
    \A k \in DOMAIN bp.Conditions :
        k \in DOMAIN data /\ data[k] = bp.Conditions[k]

\* The endpoint test as a prefix test.
BreakpointMatches_PrefixOnly(bp, q, data) ==
    /\ bp.ServiceName = q.service
    /\ HasPrefix(q.endpoint, bp.EndPoint)
    /\ ConditionsMet(bp, data)

\* One breakpoint against a query and a built keyspace.
BreakpointMatches(bp, q, data) ==
    /\ bp.ServiceName = q.service
    /\ Contains(q.endpoint, bp.EndPoint)
    /\ ConditionsMet(bp, data)

(***************************************************************************)
(* State.                                                                  *)
(***************************************************************************)
VARIABLES
    breakPoints,       \* cp.breakPoints: id -> BreakPoint
    frozenTraces,      \* fc.frozenTraces: trace id -> bool
    releaseOverrides,  \* fc.releaseOverrides: trace id -> override body
    ctx,               \* the httpContext of every sidecar request slot
    call,              \* the /check call of every slot: handler position and locals
    handedOut,         \* per trace: /check responses that carried a non-empty override since the trace was last released
    lastFreeze,        \* the response to the latest FreezeTrace RPC since the last ReleaseTrace RPC
    heap,              \* two-phase draft: the TraceFreeze objects allocated, by address
    freezes,           \* two-phase draft: fc.freezes, trace id -> address of a TraceFreeze
    execs,             \* two-phase draft: the executeTwoPhaseFreeze goroutines, address -> position
    timers,            \* two-phase draft: the timeout goroutines asleep, by address of their freeze
    graces,            \* two-phase draft: the deletion goroutines asleep, by address of the freeze released
    snapshots,         \* cp.snapshots: trace id -> SnapshotData
    appSnapshots,      \* cp.appSnapshots: trace id -> list of AppSnapshotData
    lastEmergency,     \* the response to the latest EmergencyRelease RPC
    answered,          \* per request context: the freeze answers its /check calls were given
    lastPost,          \* the latest POST to a snapshot endpoint and the status it was answered with
    traceListeners,    \* cp.traceListeners: the subscriber channels, in subscription order
    queues,            \* per subscriber channel: the events buffered in it
    streams,           \* per subscriber: the StreamTraces handler's position, whether its client has cancelled
    received,          \* per subscriber: the events stream.Send has delivered
    broadcasts,        \* the BroadcastTraceEvent calls in progress: event, position, caller
    published,         \* the events published, in the order of the statements that published them
    cpMu,              \* cp.mu, the control plane's sync.RWMutex: read locks held per handler, the writer holding rw.w
    fcMu,              \* fc.mu, the coordinator's sync.RWMutex, likewise
    handlers,          \* per handler goroutine: the lock operation it executes next (0: no call in progress)
    lastRelease        \* per trace: the override of the latest ReleaseFreeze that found the trace frozen ("none": no such release yet)

\* The variables of the coordinator main.go is written against, of the
\* two-phase draft, and all of them.
mainVars == <<breakPoints, frozenTraces, releaseOverrides, ctx, call, handedOut,
              lastFreeze>>
draftVars == <<heap, freezes, execs, timers, graces>>
storeVars == <<snapshots, appSnapshots, lastEmergency, answered, lastPost>>
busVars == <<traceListeners, queues, streams, received, broadcasts, published>>
lockVars == <<cpMu, fcMu, handlers>>
relVars == <<lastRelease>>
vars == <<mainVars, draftVars, storeVars, busVars, lockVars, relVars>>

\* Bound of the model: the hand-outs counted per release.
MaxHandOut == 2

\* An httpContext: its fields and two observations, phase (where the stream
\* is: "body" reading, "buffering" holding chunks back, "paused", "done"
\* forwarded upstream) and resumed (how it was let go: "no" it was never
\* held, "allow" by an answer that is not freeze, "failopen" by a failed call).
\* snapshotCalls lists the /snapshot calls the context has dispatched.
\* body names the buffered request body: "orig", what the client sent, or the
\* override that replaced it; contentLength is the value of the request's
\* content-length header, <<>> when the request has none.  checks counts the
\* /check calls the context has dispatched whose callback has not run,
\* resumes the calls of ResumeHttpRequest it has made.
NoCtx ==
    [phase |-> "free", req |-> "none", traceID |-> <<>>, snapshotSent |-> FALSE,
     resumed |-> "no", body |-> "orig", snapshotCalls |-> <<>>,
     contentLength |-> <<>>, checks |-> 0, resumes |-> 0]

\* A /check call: the handler's position and locals (isFrozen, isReleased,
\* the value InitiateFreeze returned, the response written), and four
\* observations about the call: afterRelease (it was issued from the freeze
\* loop when the trace was no longer frozen), startedIn, the condition of
\* the trace when the handler started: "frozen", "released" (not frozen, and
\* the latest release left an override that is pending or handed out), "idle",
\* initOn, whether the trace had a freeze when the handler called
\* InitiateFreeze ("present", "absent"; "none" when it made no call), and
\* releasedWith, what lastRelease held for the trace when the call was issued.
NoCall ==
    [pc |-> "none", isFrozen |-> FALSE, isReleased |-> FALSE, initErr |-> "none",
     resp |-> [action |-> "", override_body |-> ""],
     afterRelease |-> FALSE, startedIn |-> "idle", initOn |-> "none",
     releasedWith |-> "none"]

\* No POST to a snapshot endpoint yet.
NoPost == [path |-> "none", decoded |-> FALSE, status |-> 0]

\* The StreamTraces handlers the model follows, one per subscribing client.
Subscribers == {"s1", "s2"}

\* A StreamTraces handler that has not been called.
NoStream == [pc |-> "idle", cancelled |-> FALSE]

\* The handler goroutines whose locking the model follows: two /check
\* handlers that match a breakpoint, a ReleaseFreeze of a frozen trace and a
\* RegisterBreakpoint, which writes under cp.mu.
LockHandlers == {"check1", "check2", "release", "register"}

\* A sync.RWMutex nobody holds: no read lock, nobody in Lock.
NoMu == [readers |-> [h \in LockHandlers |-> 0], w |-> "none"]

\* No EmergencyRelease response to show.
NoEmergency == [rpc |-> "none", success |-> FALSE, freed_count |-> 0]

\* No FreezeTrace response to show.
NoRpc == [rpc |-> "none", active |-> FALSE, success |-> FALSE, state |-> "",
          event |-> "none"]

Init ==
    /\ breakPoints = EmptyMap
    /\ frozenTraces = EmptyMap
    /\ releaseOverrides = EmptyMap
    /\ ctx = [r \in Slots |-> NoCtx]
    /\ call = [r \in Slots |-> NoCall]
    /\ handedOut = [t \in TraceIds |-> 0]
    /\ lastFreeze = NoRpc
    /\ heap = <<>>
    /\ freezes = EmptyMap
    /\ execs = EmptyMap
    /\ timers = {}
    /\ graces = {}
    /\ snapshots = EmptyMap
    /\ appSnapshots = EmptyMap
    /\ lastEmergency = NoEmergency
    /\ answered = [r \in Slots |-> 0]
    /\ lastPost = NoPost
    /\ traceListeners = <<>>
    /\ queues = [s \in Subscribers |-> <<>>]
    /\ streams = [s \in Subscribers |-> NoStream]
    /\ received = [s \in Subscribers |-> <<>>]
    /\ broadcasts = {}
    /\ published = <<>>
    /\ lastRelease = [t \in TraceIds |-> "none"]
    /\ cpMu = NoMu
    /\ fcMu = NoMu
    /\ handlers = [h \in LockHandlers |-> 0]

(***************************************************************************)
(* Freeze coordinator (freeze_coordinator.go 282-369).  Each operator is   *)
(* one critical section of fc.mu: it gives the maps the call leaves, the   *)
(* lifecycle event it broadcasts and its return value.                     *)
(***************************************************************************)

\* IsTraceFrozen reading the override map instead of the freeze map.
IsTraceFrozen_WrongMap(traceID) ==
    traceID \in DOMAIN releaseOverrides

\* IsTraceFrozen: fc.frozenTraces[traceID]
IsTraceFrozen(traceID) ==
    traceID \in DOMAIN frozenTraces /\ frozenTraces[traceID]

\* IsTraceReleased: the trace has a pending release override.
IsTraceReleased(traceID) ==
    traceID \in DOMAIN releaseOverrides

\* InitiateFreeze that registers the trace without marking it frozen.
InitiateFreeze_NotMarked(traceID) ==
    [frozen |-> Put(frozenTraces, traceID, FALSE),
     event  |-> "frozen",
     err    |-> "nil"]

\* InitiateFreeze(traceID, services, breakpointID)
InitiateFreeze(traceID) ==
    [frozen |-> Put(frozenTraces, traceID, TRUE),
     event  |-> "frozen",
     err    |-> "nil"]

\* ReleaseFreeze that marks the trace released and keeps its entry.
ReleaseFreeze_KeepEntry(traceID, override) ==
    IF traceID \in DOMAIN frozenTraces
    THEN [frozen    |-> Put(frozenTraces, traceID, FALSE),
          overrides |-> IF override # ""
                        THEN Put(releaseOverrides, traceID, override)
                        ELSE releaseOverrides,
          event     |-> "released",
          err       |-> "nil"]
    ELSE [frozen    |-> frozenTraces,
          overrides |-> releaseOverrides,
          event     |-> "none",
          err       |-> "nil"]

\* ReleaseFreeze that stores the override before it looks for the freeze.
ReleaseFreeze_StoreFirst(traceID, override) ==
    [frozen    |-> Delete(frozenTraces, traceID),
     overrides |-> IF override # ""
                   THEN Put(releaseOverrides, traceID, override)
                   ELSE releaseOverrides,
     event     |-> IF traceID \in DOMAIN frozenTraces THEN "released" ELSE "none",
     err       |-> "nil"]

\* ReleaseFreeze(traceID, override)
ReleaseFreeze(traceID, override) ==
    IF traceID \in DOMAIN frozenTraces
    THEN [frozen    |-> Delete(frozenTraces, traceID),
          overrides |-> IF override # ""
                        THEN Put(releaseOverrides, traceID, override)
                        ELSE releaseOverrides,
          event     |-> "released",
          err       |-> "nil"]
    ELSE [frozen    |-> frozenTraces,
          overrides |-> releaseOverrides,
          event     |-> "none",
          err       |-> "nil"]

\* PopOverride that returns the stored override and leaves it in the map.
PopOverride_NoDelete(traceID) ==
    [val       |-> IF traceID \in DOMAIN releaseOverrides
                   THEN releaseOverrides[traceID] ELSE "",
     overrides |-> releaseOverrides]

\* PopOverride(traceID)
PopOverride(traceID) ==
    LET val == IF traceID \in DOMAIN releaseOverrides
               THEN releaseOverrides[traceID] ELSE ""
    IN  [val       |-> val,
         overrides |-> IF val # "" THEN Delete(releaseOverrides, traceID)
                       ELSE releaseOverrides]

\* GetFreezeStatus(id): the state reported, "not_found" on error.
GetFreezeStatus(id) ==
    IF id \in DOMAIN frozenTraces THEN "frozen" ELSE "not_found"

\* ListActiveFreezes(): one constructed record per key of the map.
ListActiveFreezes ==
    {[TraceID |-> t, State |-> "frozen", Services |-> <<"all">>] : t \in DOMAIN frozenTraces}

(***************************************************************************)
(* Control-plane RPCs (main.go 232-298, 422-481).  An RPC is one action;   *)
(* its response is the operator named ...Response, evaluated in the state  *)
(* the RPC starts in.                                                      *)
(***************************************************************************)

\* FreezeTrace: the response built from InitiateFreeze's return value, and
\* the lifecycle event the call broadcast.
FreezeTraceResponse(t) ==
    LET res == InitiateFreeze(t)
    IN  [success |-> res.err = "nil",
         state   |-> IF res.err = "nil" THEN "preparing" ELSE "failed",
         event   |-> res.event]

\* The RPC; lastFreeze keeps its response, the event broadcast during the
\* call and whether the trace had a freeze when the call was made.
FreezeTrace(t) ==
    /\ frozenTraces' = InitiateFreeze(t).frozen
    /\ lastFreeze' = [rpc     |-> "FreezeTrace",
                      active  |-> t \in DOMAIN frozenTraces,
                      success |-> FreezeTraceResponse(t).success,
                      state   |-> FreezeTraceResponse(t).state,
                      event   |-> FreezeTraceResponse(t).event]
    /\ UNCHANGED <<breakPoints, releaseOverrides, ctx, call, handedOut>>
    /\ UNCHANGED <<relVars, lockVars, draftVars, storeVars, busVars>>

\* ReleaseTrace: the response built from ReleaseFreeze's return value.
ReleaseTraceResponse(t, override) ==
    LET rel == ReleaseFreeze(t, override)
    IN  [success |-> rel.err = "nil", event |-> rel.event]

\* The RPC's effect on the coordinator and on what the model records of the
\* RPC surface; the hand-out counter starts again with every release that
\* took effect.
ReleaseTraceCall(t, override) ==
    /\ LET rel == ReleaseFreeze(t, override)
       IN  /\ frozenTraces' = rel.frozen
           /\ releaseOverrides' = rel.overrides
           /\ handedOut' = IF t \in TraceIds /\ rel.event = "released"
                            THEN [handedOut EXCEPT ![t] = 0] ELSE handedOut
    /\ lastFreeze' = NoRpc
    /\ UNCHANGED <<breakPoints, ctx, call>>
    /\ UNCHANGED <<lockVars, draftVars, storeVars, busVars>>

ReleaseTrace(t, override) ==
    /\ ReleaseTraceCall(t, override)
    /\ UNCHANGED relVars

\* The RPC, with the override of a release that took effect kept in
\* lastRelease.
ReleaseTraceObserved(t, override) ==
    /\ ReleaseTraceCall(t, override)
    /\ lastRelease' = IF t \in TraceIds /\ ReleaseFreeze(t, override).event = "released"
                      THEN [lastRelease EXCEPT ![t] = override]
                      ELSE lastRelease

\* The BreakPoint of the draft that did not keep the conditions.
NewBreakPoint_NoConditions(bpID, in) ==
    [ID |-> bpID, ServiceName |-> in.ServiceName, EndPoint |-> in.EndPoint,
     Conditions |-> EmptyMap, Enabled |-> TRUE]

\* The BreakPoint RegisterBreakpoint builds from its request.
NewBreakPoint(bpID, in) ==
    [ID |-> bpID, ServiceName |-> in.ServiceName, EndPoint |-> in.EndPoint,
     Conditions |-> in.Conditions, Enabled |-> TRUE]

\* RegisterBreakpoint when uuid.New() hands out bpID, an id no breakpoint
\* carries; the response names that id.
RegisterBreakpointResponse(bpID) ==
    [breakpoint_id |-> bpID, success |-> TRUE]

RegisterBreakpointWith(bpID, in) ==
    /\ bpID \notin DOMAIN breakPoints
    /\ breakPoints' = Put(breakPoints, bpID, NewBreakPoint(bpID, in))
    /\ UNCHANGED <<frozenTraces, releaseOverrides, ctx, call, handedOut,
                   lastFreeze>>
    /\ UNCHANGED <<relVars, lockVars, draftVars, storeVars, busVars>>

RegisterBreakpoint(in) == \E bpID \in BpIds : RegisterBreakpointWith(bpID, in)

\* ListBreakpoints: the lists the RPC may return, one entry per breakpoint
\* in the order the range loop visits the map.
ListBreakpoints ==
    { [i \in DOMAIN o |->
         [Id          |-> breakPoints[o[i]].ID,
          ServiceName |-> breakPoints[o[i]].ServiceName,
          Endpoint    |-> breakPoints[o[i]].EndPoint,
          Conditions  |-> breakPoints[o[i]].Conditions,
          Enabled     |-> breakPoints[o[i]].Enabled]] :
      o \in Orders(DOMAIN breakPoints) }

\* DeleteBreakPoint
DeleteBreakPointResponse(bpID) ==
    [success |-> bpID \in DOMAIN breakPoints]

DeleteBreakPoint(bpID) ==
    /\ breakPoints' = IF bpID \in DOMAIN breakPoints
                      THEN Delete(breakPoints, bpID) ELSE breakPoints
    /\ UNCHANGED <<frozenTraces, releaseOverrides, ctx, call, handedOut,
                   lastFreeze>>
    /\ UNCHANGED <<relVars, lockVars, draftVars, storeVars, busVars>>

(***************************************************************************)
(* EmergencyRelease (main.go 551-561).  ReleaseAll is called there and     *)
(* defined nowhere in the sources; it is taken from the specification:     *)
(* every active freeze is enumerated and released as ReleaseFreeze does    *)
(* without an override, and the number released is returned.               *)
(***************************************************************************)
RECURSIVE ReleaseEach(_, _)
ReleaseEach(ids, acc) ==
    IF ids = {} THEN acc
    ELSE LET t == CHOOSE x \in ids : TRUE
         IN  ReleaseEach(ids \ {t},
                         IF t \in DOMAIN acc.frozen
                         THEN [frozen |-> Delete(acc.frozen, t),
                               count  |-> acc.count + 1]
                         ELSE acc)

ReleaseAll ==
    ReleaseEach(DOMAIN frozenTraces, [frozen |-> frozenTraces, count |-> 0])

\* EmergencyRelease that reports the size of the registry after the release.
EmergencyRelease_CountAfter ==
    /\ frozenTraces' = ReleaseAll.frozen
    /\ lastEmergency' = [rpc |-> "EmergencyRelease", success |-> TRUE,
                         freed_count |-> Cardinality(DOMAIN ReleaseAll.frozen)]
    /\ handedOut' = [t \in TraceIds |->
                       IF t \in DOMAIN frozenTraces THEN 0 ELSE handedOut[t]]
    /\ UNCHANGED <<breakPoints, releaseOverrides, ctx, call, lastFreeze>>
    /\ UNCHANGED <<relVars, lockVars, draftVars, busVars, snapshots, appSnapshots, answered, lastPost>>

\* The RPC; lastEmergency keeps its response.
EmergencyRelease ==
    /\ frozenTraces' = ReleaseAll.frozen
    /\ lastEmergency' = [rpc |-> "EmergencyRelease", success |-> TRUE,
                         freed_count |-> ReleaseAll.count]
    /\ handedOut' = [t \in TraceIds |->
                       IF t \in DOMAIN frozenTraces THEN 0 ELSE handedOut[t]]
    /\ UNCHANGED <<breakPoints, releaseOverrides, ctx, call, lastFreeze>>
    /\ UNCHANGED <<relVars, lockVars, draftVars, busVars, snapshots, appSnapshots, answered, lastPost>>

\* The /snapshot body httpContext.captureAndSendSnapshot builds from the
\* context (the defaults stand in for an empty method, path or authority;
\* method is the text "<method> <path>", kept as its two parts; body is the
\* buffered request body, "{}" when none can be read).
SnapshotPayload(c) ==
    LET rq == Requests[c.req]
    IN  [trace_id     |-> c.traceID,
         service_name |-> IF rq.authority = "" THEN "unknown" ELSE rq.authority,
         method       |-> [method |-> IF rq.method = "" THEN "UNKNOWN" ELSE rq.method,
                           path   |-> IF rq.path = <<>> THEN <<"/">> ELSE rq.path],
         body         |-> IF rq.hasBody THEN rq.body ELSE JObj(EmptyMap)]

(***************************************************************************)
(* The snapshot store (main.go 147-186, 502-549): the two HTTP ingress     *)
(* handlers and the two read RPCs.  A posted body is the decoded JSON      *)
(* document, or Invalid when it does not decode.                           *)
(***************************************************************************)
StoreTraceIds == {TraceA, TraceB}

\* The /snapshot bodies: what the sidecars of two hops build for a trace.
SnapshotInputs ==
    { SnapshotPayload([NoCtx EXCEPT !.req = n, !.traceID = t]) :
        n \in {"order", "health"}, t \in StoreTraceIds }

\* The /app-snapshot bodies the instrumented services push.
AppSnapshotInputs ==
    { [TraceID |-> t, ServiceName |-> sv.name, Checkpoint |-> sv.checkpoint,
       StackTrace |-> "main.handler", LocalVars |-> sv.vars,
       Timestamp |-> "12:00:00"] :
        t \in StoreTraceIds,
        sv \in { [name |-> "svc-a", checkpoint |-> "before-charge",
                  vars |-> [x \in {<<"a", "m", "o", "u", "n", "t">>} |-> JNum(999)]],
                 [name |-> "svc-b", checkpoint |-> "after-charge",
                  vars |-> [x \in {<<"v", "i", "p">>} |-> [k |-> "bool", v |-> TRUE]]] } }

\* POST /snapshot: a body that decodes is stored under its trace id and
\* answered 200, one that does not is answered 400.
PostSnapshot(body) ==
    /\ snapshots' = IF body = Invalid THEN snapshots
                    ELSE Put(snapshots, body.trace_id, body)
    /\ lastPost' = [path |-> "/snapshot", decoded |-> body # Invalid,
                     status |-> IF body = Invalid THEN 400 ELSE 200]
    /\ UNCHANGED <<relVars, lockVars, mainVars, draftVars, busVars, appSnapshots, lastEmergency, answered>>

\* GetSnapshot(req.TraceId)
GetSnapshot(traceId) ==
    IF traceId \in DOMAIN snapshots
    THEN [Success |-> TRUE, Snapshot |-> snapshots[traceId]]
    ELSE [Success |-> FALSE]

\* Bound of the model: the application snapshots kept per trace.
MaxAppSnapshots == 3

\* POST /app-snapshot that keeps only the latest snapshot of a trace.
PostAppSnapshot_KeepLatest(body) ==
    /\ body # Invalid =>
          (body.TraceID \in DOMAIN appSnapshots =>
             Len(appSnapshots[body.TraceID]) < MaxAppSnapshots)
    /\ appSnapshots' = IF body = Invalid THEN appSnapshots
                       ELSE Put(appSnapshots, body.TraceID, <<body>>)
    /\ lastPost' = [path |-> "/app-snapshot", decoded |-> body # Invalid,
                     status |-> 200]
    /\ UNCHANGED <<relVars, lockVars, mainVars, draftVars, busVars, snapshots, lastEmergency, answered>>

\* POST /app-snapshot: a body that decodes is appended to the list of its
\* trace id; the handler writes a status only on that path, and a handler
\* that returns without writing one is answered 200 by net/http.
PostAppSnapshot(body) ==
    /\ body # Invalid =>
          (body.TraceID \in DOMAIN appSnapshots =>
             Len(appSnapshots[body.TraceID]) < MaxAppSnapshots)
    /\ appSnapshots' =
          IF body = Invalid THEN appSnapshots
          ELSE Put(appSnapshots, body.TraceID,
                   Append(IF body.TraceID \in DOMAIN appSnapshots
                          THEN appSnapshots[body.TraceID] ELSE <<>>, body))
    /\ lastPost' = [path |-> "/app-snapshot", decoded |-> body # Invalid,
                     status |-> 200]
    /\ UNCHANGED <<relVars, lockVars, mainVars, draftVars, busVars, snapshots, lastEmergency, answered>>

\* The pb.AppSnapshot GetAppSnapshot builds from a stored snapshot.
ProtoAppSnapshot(snap) ==
    LET \* fmt.Sprintf("%v", v) for a decoded local variable
        FormatValue(v) ==
            IF v.k = "num" THEN FormatFloat(v.v)
            ELSE IF v.k = "bool" THEN FormatBool(v.v)
            ELSE IF v.k = "str" THEN v.v
            ELSE <<"<", "n", "i", "l", ">">>
    IN  [ServiceName |-> snap.ServiceName, Checkpoint |-> snap.Checkpoint,
         StackTrace  |-> snap.StackTrace,
         LocalVars   |-> [k \in DOMAIN snap.LocalVars |->
                            FormatValue(snap.LocalVars[k])],
         Timestamp   |-> snap.Timestamp]

\* GetAppSnapshot(req.TraceId)
GetAppSnapshot(traceId) ==
    IF traceId \notin DOMAIN appSnapshots \/ Len(appSnapshots[traceId]) = 0
    THEN [Success |-> FALSE, Snapshots |-> <<>>]
    ELSE [Success   |-> TRUE,
          Snapshots |-> [i \in DOMAIN appSnapshots[traceId] |->
                           ProtoAppSnapshot(appSnapshots[traceId][i])]]

(***************************************************************************)
(* The /check handler (main.go 56-145), one action per critical section.   *)
(* The handler of slot r serves the /check call that slot dispatched.      *)
(***************************************************************************)
QueryOf(r) == CheckRequest(ctx[r].traceID, Requests[ctx[r].req])

\* r.Header.Get("x-trace-id") of the call of slot r
TraceOf(r) == ctx[r].traceID

\* The handler's first read, answering whether any trace is frozen.
CheckFrozen_AnyTrace(r) ==
    /\ call[r].pc = "sent"
    /\ LET t == TraceOf(r)
       IN  call' = [call EXCEPT ![r].pc = "released",
                                ![r].isFrozen = (DOMAIN frozenTraces # {}),
                                ![r].startedIn =
                                    IF t \in DOMAIN frozenTraces THEN "frozen"
                                    ELSE IF t \in DOMAIN releaseOverrides
                                            \/ handedOut[t] >= 1
                                    THEN "released" ELSE "idle"]
    /\ UNCHANGED <<breakPoints, frozenTraces, releaseOverrides, ctx, handedOut,
                   lastFreeze>>
    /\ UNCHANGED <<relVars, lockVars, draftVars, storeVars, busVars>>

\* isFrozen := fc.IsTraceFrozen(traceID)
CheckFrozen(r) ==
    /\ call[r].pc = "sent"
    /\ LET t == TraceOf(r)
       IN  call' = [call EXCEPT ![r].pc = "released",
                                ![r].isFrozen = IsTraceFrozen(t),
                                ![r].startedIn =
                                    IF t \in DOMAIN frozenTraces THEN "frozen"
                                    ELSE IF t \in DOMAIN releaseOverrides
                                            \/ handedOut[t] >= 1
                                    THEN "released" ELSE "idle"]
    /\ UNCHANGED <<breakPoints, frozenTraces, releaseOverrides, ctx, handedOut,
                   lastFreeze>>
    /\ UNCHANGED <<relVars, lockVars, draftVars, storeVars, busVars>>

\* isReleased := fc.IsTraceReleased(traceID)
CheckReleased(r) ==
    /\ call[r].pc = "released"
    /\ call' = [call EXCEPT ![r].pc = "match",
                            ![r].isReleased = IsTraceReleased(TraceOf(r))]
    /\ UNCHANGED <<breakPoints, frozenTraces, releaseOverrides, ctx, handedOut,
                   lastFreeze>>
    /\ UNCHANGED <<relVars, lockVars, draftVars, storeVars, busVars>>

\* The breakpoint loop without the isReleased guard.
CheckMatch_IgnoreReleased(r) ==
    /\ call[r].pc = "match"
    /\ LET q == CheckRequest(ctx[r].traceID, Requests[ctx[r].req])
           c == call[r]
       IN  IF ~c.isFrozen /\ q.service # ""
              /\ \E data \in SearchableData(q), id \in DOMAIN breakPoints :
                     BreakpointMatches(breakPoints[id], q, data)
           THEN /\ frozenTraces' = InitiateFreeze(q.traceID).frozen
                /\ call' = [call EXCEPT ![r].pc = "respond",
                                        ![r].isFrozen = TRUE,
                                        ![r].initErr = InitiateFreeze(q.traceID).err,
                                        ![r].initOn =
                                            IF q.traceID \in DOMAIN frozenTraces
                                            THEN "present" ELSE "absent"]
           ELSE /\ call' = [call EXCEPT ![r].pc = "respond"]
                /\ UNCHANGED frozenTraces
    /\ UNCHANGED <<breakPoints, releaseOverrides, ctx, handedOut, lastFreeze>>
    /\ UNCHANGED <<relVars, lockVars, draftVars, storeVars, busVars>>

\* The keyspace construction and the breakpoint loop under cp.mu.RLock; a
\* match calls InitiateFreeze and sets isFrozen.  The loop visits the map in
\* any order, so any matching breakpoint may be the one that fires.
CheckMatch(r) ==
    /\ call[r].pc = "match"
    /\ LET q == QueryOf(r)
           c == call[r]
       IN  IF ~c.isFrozen /\ ~c.isReleased /\ q.service # ""
           THEN \E data \in SearchableData(q) :
                   LET hits == {id \in DOMAIN breakPoints :
                                   BreakpointMatches(breakPoints[id], q, data)}
                   IN  IF hits # {}
                       THEN LET res == InitiateFreeze(q.traceID)
                            IN  /\ frozenTraces' = res.frozen
                                /\ call' = [call EXCEPT ![r].pc = "respond",
                                                        ![r].isFrozen = TRUE,
                                                        ![r].initErr = res.err,
                                                        ![r].initOn =
                                                            IF q.traceID \in DOMAIN frozenTraces
                                                            THEN "present" ELSE "absent"]
                       ELSE /\ call' = [call EXCEPT ![r].pc = "respond"]
                            /\ UNCHANGED frozenTraces
           ELSE /\ call' = [call EXCEPT ![r].pc = "respond"]
                /\ UNCHANGED frozenTraces
    /\ UNCHANGED <<breakPoints, releaseOverrides, ctx, handedOut, lastFreeze>>
    /\ UNCHANGED <<relVars, lockVars, draftVars, storeVars, busVars>>

\* The response: freeze, or allow with the popped override.
CheckRespond(r) ==
    /\ call[r].pc = "respond"
    /\ LET t == TraceOf(r)
       IN  IF call[r].isFrozen
           THEN /\ call' = [call EXCEPT ![r].pc = "resp",
                                        ![r].resp = [action |-> "freeze",
                                                     override_body |-> ""]]
                /\ UNCHANGED <<releaseOverrides, handedOut>>
           ELSE LET pop == PopOverride(t)
                IN  /\ pop.val # "" => handedOut[t] < MaxHandOut
                    /\ releaseOverrides' = pop.overrides
                    /\ handedOut' = IF pop.val # ""
                                    THEN [handedOut EXCEPT ![t] = @ + 1]
                                    ELSE handedOut
                    /\ call' = [call EXCEPT ![r].pc = "resp",
                                            ![r].resp = [action |-> "allow",
                                                         override_body |-> pop.val]]
    /\ UNCHANGED <<breakPoints, frozenTraces, ctx, lastFreeze>>
    /\ UNCHANGED <<relVars, lockVars, draftVars, storeVars, busVars>>

(***************************************************************************)
(* Sidecar filter (envoy-filter/main.go 465-652).                          *)
(***************************************************************************)

\* callControlPlane that reports a failed dispatch as a call in flight and
\* does not resume the request.
callControlPlane_NoResume(c, dispatched) ==
    [ctx  |-> IF dispatched THEN [c EXCEPT !.checks = @ + 1] ELSE c,
     call |-> IF dispatched
              THEN [NoCall EXCEPT !.pc = "sent",
                                  !.afterRelease = c.snapshotSent
                                                   /\ c.traceID \notin DOMAIN frozenTraces,
                                  !.releasedWith = IF c.traceID \in TraceIds
                                                   THEN lastRelease[c.traceID]
                                                   ELSE "none"]
              ELSE NoCall,
     ret  |-> TRUE]

\* callControlPlane that resumes the request whether or not the call was
\* dispatched.
callControlPlane_ResumeAlways(c, dispatched) ==
    IF dispatched
    THEN [ctx  |-> [c EXCEPT !.checks = @ + 1, !.resumes = @ + 1],
          call |-> [NoCall EXCEPT !.pc = "sent",
                                  !.afterRelease = c.snapshotSent
                                                   /\ c.traceID \notin DOMAIN frozenTraces,
                                  !.releasedWith = IF c.traceID \in TraceIds
                                                   THEN lastRelease[c.traceID]
                                                   ELSE "none"],
          ret  |-> TRUE]
    ELSE [ctx  |-> [c EXCEPT !.resumed = "failopen", !.resumes = @ + 1],
          call |-> NoCall,
          ret  |-> FALSE]

\* callControlPlane on context c: a dispatched call makes the context wait
\* (returns true); a failed dispatch resumes the request (returns false).
callControlPlane(c, dispatched) ==
    IF dispatched
    THEN [ctx  |-> [c EXCEPT !.checks = @ + 1],
          call |-> [NoCall EXCEPT !.pc = "sent",
                                  !.afterRelease = c.snapshotSent
                                                   /\ c.traceID \notin DOMAIN frozenTraces,
                                  !.releasedWith = IF c.traceID \in TraceIds
                                                   THEN lastRelease[c.traceID]
                                                   ELSE "none"],
          ret  |-> TRUE]
    ELSE [ctx  |-> [c EXCEPT !.resumed = "failopen", !.resumes = @ + 1],
          call |-> NoCall,
          ret  |-> FALSE]

\* The bytes of a request body the client sent, as compact JSON text; a body
\* that is not JSON is the text "not json".
RECURSIVE BodyLen(_)
RECURSIVE FieldsLen(_, _)
FieldsLen(f, ks) ==
    IF ks = {} THEN 0
    ELSE LET k == CHOOSE x \in ks : TRUE
         IN  Len(k) + 3 + BodyLen(f[k]) + (IF ks = {k} THEN 0 ELSE 1)
                 + FieldsLen(f, ks \ {k})

BodyLen(v) ==
    CASE v.k = "obj"     -> 2 + FieldsLen(v.v, DOMAIN v.v)
      [] v.k = "str"     -> Len(v.v) + 2
      [] v.k = "num"     -> Len(Digits(v.v))
      [] v.k = "bool"    -> IF v.v THEN 4 ELSE 5
      [] v.k = "null"    -> 4
      [] v.k = "invalid" -> 8
      [] OTHER           -> 0

\* The most bytes OnCheckResponse reads back from the request body buffer
\* (1024*1024).
MaxBodyRead == 1048576

\* The override bodies are named by their text; HugeBody names a text of
\* MaxBodyRead + 1 bytes.
HugeBody == "HUGE"
OverrideLen(o) == IF o = HugeBody THEN MaxBodyRead + 1 ELSE Len(o)

\* proxywasm.GetHttpRequestBody(start, maxSize): the bytes of the buffer
\* from start, maxSize of them at most; an error when there are none.
GetHttpRequestBody(c, start, maxSize) ==
    LET \* the bytes in the request body buffer of the context
        BufferedLen ==
            IF c.body = "orig"
            THEN IF Requests[c.req].hasBody THEN BodyLen(Requests[c.req].body) ELSE 0
            ELSE OverrideLen(c.body)
        n == BufferedLen - start
    IN  IF n <= 0 THEN [ok |-> FALSE, len |-> 0]
        ELSE [ok |-> TRUE, len |-> IF n <= maxSize THEN n ELSE maxSize]

\* itoa
itoa(i) == Digits(i)

\* The allow branch of OnCheckResponse: a non-empty override_body replaces
\* the request body, content-length is set to the length of what can be
\* read back from the buffer, the request is resumed.
AllowRequest(c, resp) ==
    LET c1 == IF resp.override_body # ""
              THEN [c EXCEPT !.body = resp.override_body] ELSE c
        currentBody == GetHttpRequestBody(c1, 0, MaxBodyRead)
    IN  [c1 EXCEPT !.phase = "done", !.resumed = "allow", !.resumes = @ + 1,
                   !.contentLength = IF currentBody.ok THEN itoa(currentBody.len)
                                     ELSE @]

\* A request reaches a request context that is free or has forwarded its
\* request, and the header callback runs on a fresh httpContext; it removes
\* the content-length header of a request it has tagged.
OnHttpRequestHeaders(r, name) ==
    /\ ctx[r].phase \in {"free", "done"}
    /\ call[r].pc = "none"
    /\ LET rq          == Requests[name]
           endOfStream == ~rq.hasBody
           t           == extractTraceID(rq)
           c           == [NoCtx EXCEPT !.req = name, !.traceID = t,
                                        !.contentLength =
                                            IF t = <<>> /\ rq.hasBody
                                            THEN itoa(BodyLen(rq.body)) ELSE <<>>]
       IN  IF c.traceID = <<>>
           THEN /\ ctx' = [ctx EXCEPT ![r] =
                              [c EXCEPT !.phase = IF endOfStream THEN "done" ELSE "body"]]
                /\ UNCHANGED call
           ELSE IF endOfStream
           THEN \E dispatched \in BOOLEAN :
                   LET res == callControlPlane(c, dispatched)
                   IN  /\ ctx' = [ctx EXCEPT ![r] =
                                    IF res.ret
                                    THEN [res.ctx EXCEPT !.phase = "paused"]
                                    ELSE [res.ctx EXCEPT !.phase = "done"]]
                       /\ call' = [call EXCEPT ![r] = res.call]
           ELSE /\ ctx' = [ctx EXCEPT ![r] = [c EXCEPT !.phase = "body"]]
                /\ UNCHANGED call
    /\ UNCHANGED <<breakPoints, frozenTraces, releaseOverrides, handedOut, lastFreeze>>
    /\ UNCHANGED <<relVars, lockVars, draftVars, storeVars, busVars>>

\* OnHttpRequestBody without the early return for an empty trace id.
OnHttpRequestBody_NoTagCheck(r, endOfStream) ==
    /\ ctx[r].phase \in {"body", "buffering"}
    /\ LET c == ctx[r]
       IN  IF ~endOfStream
           THEN /\ ctx' = [ctx EXCEPT ![r] = [c EXCEPT !.phase = "buffering"]]
                /\ UNCHANGED call
           ELSE \E dispatched \in BOOLEAN :
                   LET res == callControlPlane(c, dispatched)
                   IN  /\ ctx' = [ctx EXCEPT ![r] =
                                    IF res.ret
                                    THEN [res.ctx EXCEPT !.phase = "paused"]
                                    ELSE [res.ctx EXCEPT !.phase = "done"]]
                       /\ call' = [call EXCEPT ![r] = res.call]
    /\ UNCHANGED <<breakPoints, frozenTraces, releaseOverrides, handedOut, lastFreeze>>
    /\ UNCHANGED <<relVars, lockVars, draftVars, storeVars, busVars>>

\* OnHttpRequestBody: chunks of an untagged request pass; chunks of a tagged
\* request are held back until the last one, which issues the /check call.
OnHttpRequestBody(r, endOfStream) ==
    /\ ctx[r].phase \in {"body", "buffering"}
    /\ LET c == ctx[r]
       IN  IF c.traceID = <<>>
           THEN /\ ctx' = [ctx EXCEPT ![r] =
                              IF endOfStream THEN [c EXCEPT !.phase = "done"] ELSE c]
                /\ UNCHANGED call
           ELSE IF ~endOfStream
           THEN /\ ctx' = [ctx EXCEPT ![r] = [c EXCEPT !.phase = "buffering"]]
                /\ UNCHANGED call
           ELSE \E dispatched \in BOOLEAN :
                   LET res == callControlPlane(c, dispatched)
                   IN  /\ ctx' = [ctx EXCEPT ![r] =
                                    IF res.ret
                                    THEN [res.ctx EXCEPT !.phase = "paused"]
                                    ELSE [res.ctx EXCEPT !.phase = "done"]]
                       /\ call' = [call EXCEPT ![r] = res.call]
    /\ UNCHANGED <<breakPoints, frozenTraces, releaseOverrides, handedOut, lastFreeze>>
    /\ UNCHANGED <<relVars, lockVars, draftVars, storeVars, busVars>>

\* The outcomes of a dispatched /check call as OnCheckResponse sees them:
\* "ok" a body with an action field, "nobody" the body cannot be read (the
\* call timed out or failed), "noaction" a body without an action field.
Outcomes == {"ok", "nobody", "noaction"}

\* httpContext.captureAndSendSnapshot: the body is built and dispatched.
captureAndSendSnapshot(c) ==
    [c EXCEPT !.snapshotCalls = Append(@, SnapshotPayload(c))]

\* OnCheckResponse that sends the snapshot on every freeze answer.
OnCheckResponse_SnapshotEveryPoll(r, outcome) ==
    /\ ctx[r].phase = "paused"
    /\ \/ call[r].pc = "resp"
       \/ call[r].pc = "sent" /\ outcome = "nobody"
    /\ LET c    == [ctx[r] EXCEPT !.checks = @ - 1]
           resp == call[r].resp
       IN  IF outcome # "ok"
           THEN /\ ctx' = [ctx EXCEPT ![r] =
                              [c EXCEPT !.phase = "done", !.resumed = "failopen",
                                        !.resumes = @ + 1]]
                /\ call' = [call EXCEPT ![r] = NoCall]
           ELSE IF resp.action = "freeze"
           THEN \E dispatched \in BOOLEAN :
                   LET c1  == [captureAndSendSnapshot(c) EXCEPT !.snapshotSent = TRUE]
                       res == callControlPlane(c1, dispatched)
                   IN  /\ ctx' = [ctx EXCEPT ![r] =
                                    IF res.ret THEN res.ctx
                                    ELSE [res.ctx EXCEPT !.phase = "done"]]
                       /\ call' = [call EXCEPT ![r] = res.call]
           ELSE /\ ctx' = [ctx EXCEPT ![r] = AllowRequest(c, resp)]
                /\ call' = [call EXCEPT ![r] = NoCall]
    /\ UNCHANGED <<breakPoints, frozenTraces, releaseOverrides, handedOut, lastFreeze>>
    /\ UNCHANGED <<relVars, lockVars, draftVars, storeVars, busVars>>

\* OnCheckResponse that resumes the request after a freeze answer as well.
OnCheckResponse_ResumeOnFreeze(r, outcome) ==
    /\ ctx[r].phase = "paused"
    /\ \/ call[r].pc = "resp"
       \/ call[r].pc = "sent" /\ outcome = "nobody"
    /\ LET c    == [ctx[r] EXCEPT !.checks = @ - 1]
           resp == call[r].resp
       IN  IF outcome # "ok"
           THEN /\ ctx' = [ctx EXCEPT ![r] =
                              [c EXCEPT !.phase = "done", !.resumed = "failopen",
                                        !.resumes = @ + 1]]
                /\ call' = [call EXCEPT ![r] = NoCall]
           ELSE IF resp.action = "freeze"
           THEN \E dispatched \in BOOLEAN :
                   LET c1  == IF ~c.snapshotSent
                          THEN [captureAndSendSnapshot(c) EXCEPT !.snapshotSent = TRUE]
                          ELSE c
                       res == callControlPlane(c1, dispatched)
                   IN  /\ ctx' = [ctx EXCEPT ![r] =
                                    [res.ctx EXCEPT !.phase = "done",
                                                    !.resumed = "allow",
                                                    !.resumes = @ + 1]]
                       /\ call' = [call EXCEPT ![r] = res.call]
           ELSE /\ ctx' = [ctx EXCEPT ![r] = AllowRequest(c, resp)]
                /\ call' = [call EXCEPT ![r] = NoCall]
    /\ UNCHANGED <<breakPoints, frozenTraces, releaseOverrides, handedOut, lastFreeze>>
    /\ UNCHANGED <<relVars, lockVars, draftVars, storeVars, busVars>>

\* OnCheckResponse: the callback of the /check call.
OnCheckResponse(r, outcome) ==
    /\ ctx[r].phase = "paused"
    /\ \/ call[r].pc = "resp"
       \/ call[r].pc = "sent" /\ outcome = "nobody"
    /\ LET c    == [ctx[r] EXCEPT !.checks = @ - 1]
           resp == call[r].resp
       IN  IF outcome # "ok"
           THEN /\ ctx' = [ctx EXCEPT ![r] =
                              [c EXCEPT !.phase = "done", !.resumed = "failopen",
                                        !.resumes = @ + 1]]
                /\ call' = [call EXCEPT ![r] = NoCall]
           ELSE IF resp.action = "freeze"
           THEN \E dispatched \in BOOLEAN :
                   LET c1  == IF ~c.snapshotSent
                          THEN [captureAndSendSnapshot(c) EXCEPT !.snapshotSent = TRUE]
                          ELSE c
                       res == callControlPlane(c1, dispatched)
                   IN  /\ ctx' = [ctx EXCEPT ![r] =
                                    IF res.ret THEN res.ctx
                                    ELSE [res.ctx EXCEPT !.phase = "done"]]
                       /\ call' = [call EXCEPT ![r] = res.call]
           ELSE /\ ctx' = [ctx EXCEPT ![r] = AllowRequest(c, resp)]
                /\ call' = [call EXCEPT ![r] = NoCall]
    /\ UNCHANGED <<breakPoints, frozenTraces, releaseOverrides, handedOut, lastFreeze>>
    /\ UNCHANGED <<relVars, lockVars, draftVars, storeVars, busVars>>

(***************************************************************************)
(* The system: users of the RPC surface, the handlers, the sidecars.       *)
(***************************************************************************)
Next ==
    \/ \E t \in TraceIds : FreezeTrace(t)
    \/ \E t \in TraceIds, o \in Overrides : ReleaseTrace(t, o)
    \/ \E in \in { [ServiceName |-> "svc-a", EndPoint |-> sOrder,
                     Conditions  |-> [x \in {sBodyDot \o sAmount} |-> Digits(999)]] } :
          RegisterBreakpoint(in)
    \/ \E id \in BpIds : DeleteBreakPoint(id)
    \/ \E r \in Slots : CheckFrozen(r)
    \/ \E r \in Slots : CheckReleased(r)
    \/ \E r \in Slots : CheckMatch(r)
    \/ \E r \in Slots : CheckRespond(r)
    \/ \E r \in Slots : \E name \in SlotRequests[r] : OnHttpRequestHeaders(r, name)
    \/ \E r \in Slots, e \in BOOLEAN : OnHttpRequestBody(r, e)
    \/ \E r \in Slots, o \in Outcomes : OnCheckResponse(r, o)

Spec == Init /\ [][Next]_vars

\* The handlers and the sidecar callbacks run when they can; the users of the
\* RPC surface and the clients that send requests need not act.
FairSpec ==
    /\ Spec
    /\ \A r \in Slots :
          /\ WF_vars(CheckFrozen(r))
          /\ WF_vars(CheckReleased(r))
          /\ WF_vars(CheckMatch(r))
          /\ WF_vars(CheckRespond(r))
          /\ WF_vars(\E e \in BOOLEAN : OnHttpRequestBody(r, e))
          /\ WF_vars(\E o \in Outcomes : OnCheckResponse(r, o))

(***************************************************************************)
(* The two-phase coordinator draft (freeze_coordinator.go 1-249): freeze   *)
(* records with a lifecycle, a goroutine per freeze that prepares and      *)
(* commits it, a timeout goroutine and a deletion goroutine.  A record is  *)
(* a heap object; the registry, the goroutines and the timers hold its     *)
(* address.                                                                *)
(***************************************************************************)

\* The trace ids the draft is driven with.
DraftTraceIds == {TraceA, TraceB}

\* services of FreezeTrace (no services given) and of OnBreakpointHit
DefaultServices == <<"service-a", "service-b", "service-c">>

\* Bound of the model: the TraceFreeze objects allocated in a run.
MaxFreezes == 3

\* InitiateFreeze with the breakpoint id used as the key of the registry.
InitiateFreezeDraft_KeyedByBreakpoint(traceID, services, breakpointID) ==
    IF breakpointID \in DOMAIN freezes
    THEN [err |-> "AlreadyExists", heap |-> heap, freezes |-> freezes, execs |-> execs]
    ELSE LET addr   == Len(heap) + 1
             freeze == [TraceID |-> traceID, Services |-> services,
                        State |-> "preparing", AckServices |-> {},
                        BreakPointID |-> breakpointID]
         IN  [err     |-> "nil",
              heap    |-> Append(heap, freeze),
              freezes |-> Put(freezes, breakpointID, addr),
              execs   |-> Put(execs, addr, "prepare")]

\* InitiateFreeze (draft, 55-80): refuse a trace id that is registered, else
\* allocate the record, register it and start executeTwoPhaseFreeze on it.
InitiateFreezeDraft(traceID, services, breakpointID) ==
    IF traceID \in DOMAIN freezes
    THEN [err |-> "AlreadyExists", heap |-> heap, freezes |-> freezes, execs |-> execs]
    ELSE LET addr   == Len(heap) + 1
             freeze == [TraceID |-> traceID, Services |-> services,
                        State |-> "preparing", AckServices |-> {},
                        BreakPointID |-> breakpointID]
         IN  [err     |-> "nil",
              heap    |-> Append(heap, freeze),
              freezes |-> Put(freezes, traceID, addr),
              execs   |-> Put(execs, addr, "prepare")]

\* ReleaseFreeze that releases a registered record whatever its state.
ReleaseFreezeDraft_AnyState(traceID) ==
    IF traceID \notin DOMAIN freezes
    THEN [err |-> "NotFrozen", heap |-> heap, graces |-> graces, event |-> "none"]
    ELSE LET addr == freezes[traceID]
         IN  [err    |-> "nil",
              heap   |-> [heap EXCEPT ![addr].State = "completed"],
              graces |-> graces \cup {addr},
              event  |-> "released"]

\* ReleaseFreeze (draft, 163-203): only a registered record in state frozen
\* is released; it becomes completed, stays registered, and a goroutine
\* that deletes the key after the grace period is started.
ReleaseFreezeDraft(traceID) ==
    IF traceID \notin DOMAIN freezes
    THEN [err |-> "NotFrozen", heap |-> heap, graces |-> graces, event |-> "none"]
    ELSE LET addr == freezes[traceID]
         IN  IF heap[addr].State # "frozen"
             THEN [err |-> "NotInFrozenState", heap |-> heap, graces |-> graces,
                   event |-> "none"]
             ELSE [err    |-> "nil",
                   heap   |-> [heap EXCEPT ![addr].State = "completed"],
                   graces |-> graces \cup {addr},
                   event  |-> "released"]

\* abortFreeze (draft, 205-226): the record fails and its key is deleted.
abortFreeze(addr) ==
    [heap    |-> [heap EXCEPT ![addr].State = "failed"],
     freezes |-> Delete(freezes, heap[addr].TraceID),
     event   |-> "failed"]

\* FreezeTrace RPC against the draft.
FreezeTraceDraft(t) ==
    /\ Len(heap) < MaxFreezes
    /\ LET res == InitiateFreezeDraft(t, DefaultServices, <<"m", "a", "n", "u", "a", "l">>)
       IN  /\ heap' = res.heap
           /\ freezes' = res.freezes
           /\ execs' = res.execs
    /\ UNCHANGED <<timers, graces>>
    /\ UNCHANGED <<relVars, lockVars, mainVars, storeVars, busVars>>

\* OnBreakpointHit: the match-triggered InitiateFreeze; its error is logged.
OnBreakpointHit(traceID, bpID) ==
    /\ Len(heap) < MaxFreezes
    /\ LET res == InitiateFreezeDraft(traceID, DefaultServices, bpID)
       IN  /\ heap' = res.heap
           /\ freezes' = res.freezes
           /\ execs' = res.execs
    /\ UNCHANGED <<timers, graces>>
    /\ UNCHANGED <<relVars, lockVars, mainVars, storeVars, busVars>>

\* ReleaseTrace RPC against the draft.
ReleaseTraceDraft(t) ==
    /\ LET rel == ReleaseFreezeDraft(t)
       IN  /\ heap' = rel.heap
           /\ graces' = rel.graces
    /\ UNCHANGED <<freezes, execs, timers>>
    /\ UNCHANGED <<relVars, lockVars, mainVars, storeVars, busVars>>

\* preparePhase (draft, 120-140) and the abort that follows its error: the
\* filters of the first acked services are created; the phase fails when
\* one cannot be created.
preparePhase(addr, acked) ==
    /\ addr \in DOMAIN execs /\ execs[addr] = "prepare"
    /\ LET services == heap[addr].Services
           h1 == [heap EXCEPT ![addr].AckServices =
                                  {services[i] : i \in 1..acked}]
       IN  IF acked = Len(services)
           THEN /\ heap' = h1
                /\ execs' = [execs EXCEPT ![addr] = "commit"]
                /\ UNCHANGED freezes
           ELSE /\ heap' = [h1 EXCEPT ![addr].State = "failed"]
                /\ freezes' = abortFreeze(addr).freezes
                /\ execs' = Delete(execs, addr)
    /\ UNCHANGED <<timers, graces>>
    /\ UNCHANGED <<relVars, lockVars, mainVars, storeVars, busVars>>

\* commitPhase (draft, 143-161) and the abort that follows its error.
commitPhase(addr, ok) ==
    /\ addr \in DOMAIN execs /\ execs[addr] = "commit"
    /\ IF ok
       THEN /\ execs' = [execs EXCEPT ![addr] = "frozen"]
            /\ UNCHANGED <<heap, freezes>>
       ELSE /\ heap' = abortFreeze(addr).heap
            /\ freezes' = abortFreeze(addr).freezes
            /\ execs' = Delete(execs, addr)
    /\ UNCHANGED <<timers, graces>>
    /\ UNCHANGED <<relVars, lockVars, mainVars, storeVars, busVars>>

\* executeTwoPhaseFreeze, lines 104-117: the record becomes frozen and the
\* timeout goroutine of the freeze is started.
markFrozen(addr) ==
    /\ addr \in DOMAIN execs /\ execs[addr] = "frozen"
    /\ heap' = [heap EXCEPT ![addr].State = "frozen"]
    /\ execs' = Delete(execs, addr)
    /\ timers' = timers \cup {addr}
    /\ UNCHANGED <<freezes, graces>>
    /\ UNCHANGED <<relVars, lockVars, mainVars, storeVars, busVars>>

\* The timeout goroutine wakes up: ReleaseFreeze(freeze.TraceID), its
\* result dropped.
timeoutRelease(addr) ==
    /\ addr \in timers
    /\ timers' = timers \ {addr}
    /\ LET rel == ReleaseFreezeDraft(heap[addr].TraceID)
       IN  /\ heap' = rel.heap
           /\ graces' = rel.graces
    /\ UNCHANGED <<freezes, execs>>
    /\ UNCHANGED <<relVars, lockVars, mainVars, storeVars, busVars>>

\* The deletion goroutine wakes up after the grace period:
\* delete(fc.freezes, traceID).
graceDelete(addr) ==
    /\ addr \in graces
    /\ graces' = graces \ {addr}
    /\ freezes' = Delete(freezes, heap[addr].TraceID)
    /\ UNCHANGED <<heap, execs, timers>>
    /\ UNCHANGED <<relVars, lockVars, mainVars, storeVars, busVars>>

NextTwoPhase ==
    \/ \E t \in DraftTraceIds : FreezeTraceDraft(t)
    \/ \E t \in DraftTraceIds, bp \in {<<"b", "p", "1">>} : OnBreakpointHit(t, bp)
    \/ \E t \in DraftTraceIds : ReleaseTraceDraft(t)
    \/ \E addr \in 1..MaxFreezes, acked \in 0..Len(DefaultServices) : preparePhase(addr, acked)
    \/ \E addr \in 1..MaxFreezes, ok \in BOOLEAN : commitPhase(addr, ok)
    \/ \E addr \in 1..MaxFreezes : markFrozen(addr)
    \/ \E addr \in 1..MaxFreezes : timeoutRelease(addr)
    \/ \E addr \in 1..MaxFreezes : graceDelete(addr)

SpecTwoPhase == Init /\ [][NextTwoPhase]_vars

(***************************************************************************)
(* The sidecars on their own: the control plane is whatever answers the    *)
(* /check calls, with any action it can write (main.go 139-145).           *)
(***************************************************************************)
\* Bound of the model: the freeze answers one request is given.
MaxPolls == 3

\* The response of the /check call of slot r arrives; answered counts the
\* freeze answers given to the request the slot holds.
CheckAnswer(r, resp) ==
    /\ call[r].pc = "sent"
    /\ resp.action = "freeze" =>
          (ctx[r].snapshotSent => answered[r] < MaxPolls)
    /\ call' = [call EXCEPT ![r] = [@ EXCEPT !.pc = "resp", !.resp = resp]]
    /\ answered' = [answered EXCEPT ![r] =
                       IF resp.action # "freeze" THEN @
                       ELSE IF ctx[r].snapshotSent THEN @ + 1 ELSE 1]
    /\ UNCHANGED <<breakPoints, frozenTraces, releaseOverrides, ctx, handedOut,
                   lastFreeze>>
    /\ UNCHANGED <<relVars, lockVars, draftVars, busVars, snapshots, appSnapshots, lastEmergency, lastPost>>

NextSidecar ==
    \/ \E r \in Slots : \E name \in SlotRequests[r] : OnHttpRequestHeaders(r, name)
    \/ \E r \in Slots, e \in BOOLEAN : OnHttpRequestBody(r, e)
    \/ \E r \in Slots :
          \E resp \in { [action |-> "allow",  override_body |-> ""],
                        [action |-> "allow",  override_body |-> "FIXED"],
                        [action |-> "allow",  override_body |-> HugeBody],
                        [action |-> "freeze", override_body |-> ""] } :
             CheckAnswer(r, resp)
    \/ \E r \in Slots, o \in Outcomes : OnCheckResponse(r, o)

SpecSidecar == Init /\ [][NextSidecar]_vars

(***************************************************************************)
(* The match engine on its own: one /check call of a request on trace      *)
(* aaaa...a is served, for every request and every registry content below, *)
(* while users freeze and release the other trace.                         *)
(***************************************************************************)
\* The breakpoints the match engine is exercised with: a strict body key, a
\* strict header key, the short key with the body's and with the header's
\* value, another service, no service name.
MatchBpInputs ==
    { [ServiceName |-> "svc-a", EndPoint |-> sOrder,
       Conditions  |-> [x \in {sBodyDot \o sAmount} |-> Digits(999)]],
      [ServiceName |-> "svc-a", EndPoint |-> sOrder,
       Conditions  |-> [x \in {sHeaderDot \o sUserType} |-> sVip]],
      [ServiceName |-> "svc-a", EndPoint |-> sOrder,
       Conditions  |-> [x \in {sAmount} |-> Digits(999)]],
      [ServiceName |-> "svc-a", EndPoint |-> sOrder,
       Conditions  |-> [x \in {sAmount} |-> Digits(5)]],
      [ServiceName |-> "svc-a", EndPoint |-> sOrder,
       Conditions  |-> [x \in {sBodyDot \o sAmount, sHeaderDot \o sUserType} |->
                          IF x = sBodyDot \o sAmount THEN Digits(999) ELSE sVip]],
      [ServiceName |-> "svc-b", EndPoint |-> sOrder, Conditions |-> EmptyMap],
      [ServiceName |-> "", EndPoint |-> sOrder, Conditions |-> EmptyMap] }

MatchBpIds == {"bp1", "bp2"}

InitMatch ==
    \* the registry holds no breakpoint, one, or two
    /\ breakPoints \in
          {EmptyMap}
          \cup { [id \in {"bp1"} |-> NewBreakPoint(id, in)] : in \in MatchBpInputs }
          \cup { [id \in MatchBpIds |->
                    NewBreakPoint(id, IF id = "bp1" THEN in1 ELSE in2)] :
                  in1 \in MatchBpInputs, in2 \in MatchBpInputs }
    /\ frozenTraces = EmptyMap
    /\ releaseOverrides = EmptyMap
    /\ \E name \in (DOMAIN Requests \ {"plain", "short"}) :
          ctx = [r \in Slots |->
                   IF r = "r1"
                   THEN [NoCtx EXCEPT !.phase = "paused", !.req = name, !.checks = 1,
                                      !.traceID = extractTraceID(Requests[name])]
                   ELSE NoCtx]
    /\ call = [r \in Slots |->
                 IF r = "r1" THEN [NoCall EXCEPT !.pc = "sent"] ELSE NoCall]
    /\ handedOut = [t \in TraceIds |-> 0]
    /\ lastFreeze = NoRpc
    /\ heap = <<>>
    /\ freezes = EmptyMap
    /\ execs = EmptyMap
    /\ timers = {}
    /\ graces = {}
    /\ snapshots = EmptyMap
    /\ appSnapshots = EmptyMap
    /\ lastEmergency = NoEmergency
    /\ answered = [r \in Slots |-> 0]
    /\ lastPost = NoPost
    /\ traceListeners = <<>>
    /\ queues = [s \in Subscribers |-> <<>>]
    /\ streams = [s \in Subscribers |-> NoStream]
    /\ received = [s \in Subscribers |-> <<>>]
    /\ broadcasts = {}
    /\ published = <<>>
    /\ lastRelease = [t \in TraceIds |-> "none"]
    /\ cpMu = NoMu
    /\ fcMu = NoMu
    /\ handlers = [h \in LockHandlers |-> 0]

NextMatch ==
    \/ \E r \in Slots : CheckFrozen(r)
    \/ \E r \in Slots : CheckReleased(r)
    \/ \E r \in Slots : CheckMatch(r)
    \/ \E r \in Slots : CheckRespond(r)
    \/ FreezeTrace(TraceB)
    \/ \E o \in Overrides : ReleaseTrace(TraceB, o)

SpecMatch == InitMatch /\ [][NextMatch]_vars

(***************************************************************************)
(* The snapshot store on its own: sidecars and services post snapshots.    *)
(***************************************************************************)
NextStore ==
    \/ \E body \in SnapshotInputs \cup {Invalid} : PostSnapshot(body)
    \/ \E body \in AppSnapshotInputs \cup {Invalid} : PostAppSnapshot(body)

SpecStore == Init /\ [][NextStore]_vars

(***************************************************************************)
(* The RPC surface on its own: users freeze and release two traces, call   *)
(* EmergencyRelease, register and delete breakpoints.                      *)
(***************************************************************************)
RpcTraceIds == {TraceA, TraceB}

NextRpc ==
    \/ \E t \in RpcTraceIds : FreezeTrace(t)
    \/ \E t \in RpcTraceIds, o \in Overrides : ReleaseTrace(t, o)
    \/ EmergencyRelease
    \/ \E id \in MatchBpIds, in \in MatchBpInputs : RegisterBreakpointWith(id, in)
    \/ \E id \in MatchBpIds : DeleteBreakPoint(id)

SpecRpc == Init /\ [][NextRpc]_vars

(***************************************************************************)
(* The event bus: StreamTraces handlers subscribe, /check and the         *)
(* coordinator publish, BroadcastTraceEvent fans out.                      *)
(***************************************************************************)
\* Bounds of the model: the capacity of a subscriber channel (100 in the
\* code), and the events published in one behaviour.
QueueCap == 1
MaxEvents == 2

\* The *pb.TraceEvent BroadcastTrace builds; id stands for the identity of
\* the object, a fresh one per call.
TraceEventOf(id, traceID, service, endpoint) ==
    [id |-> id, TraceId |-> traceID, ServiceName |-> service,
     Endpoint |-> endpoint, Attributes |-> EmptyMap]

\* The *pb.TraceEvent BroadcastFreezeEvent builds.
FreezeEventOf(id, traceID, status) ==
    [id |-> id, TraceId |-> traceID, ServiceName |-> "control-plane",
     Endpoint |-> "/freeze", Attributes |-> [freeze_status |-> status]]

\* s.mu is read-locked by every BroadcastTraceEvent call inside its loop.
ReadLocked == \E b \in broadcasts : b.pc = "loop"

\* The /check handler's "go cp.BroadcastTrace(traceID, service, endpoint)":
\* the goroutine is started and the handler goes on.
GoBroadcastTrace(traceID, service, endpoint) ==
    /\ Len(published) < MaxEvents
    /\ LET event == TraceEventOf(Len(published) + 1, traceID, service, endpoint)
       IN  /\ published' = Append(published, event)
           /\ broadcasts' = broadcasts \cup
                  {[event |-> event, pc |-> "start", i |-> 0, by |-> "check"]}
    /\ UNCHANGED <<relVars, lockVars, mainVars, draftVars, storeVars, traceListeners, queues,
                   streams, received>>

\* The coordinator's call of BroadcastFreezeEvent, made with fc.mu held: one
\* such call at a time.
BroadcastFreezeEvent(traceID, status) ==
    /\ Len(published) < MaxEvents
    /\ \A b \in broadcasts : b.by # "coordinator"
    /\ LET event == FreezeEventOf(Len(published) + 1, traceID, status)
       IN  /\ published' = Append(published, event)
           /\ broadcasts' = broadcasts \cup
                  {[event |-> event, pc |-> "start", i |-> 0, by |-> "coordinator"]}
    /\ UNCHANGED <<relVars, lockVars, mainVars, draftVars, storeVars, traceListeners, queues,
                   streams, received>>

\* BroadcastTraceEvent takes the read lock; the write-locked sections of the
\* model are single steps, so the lock is free of writers.
BroadcastRLock(b) ==
    /\ b \in broadcasts
    /\ b.pc = "start"
    /\ broadcasts' = (broadcasts \ {b}) \cup {[b EXCEPT !.pc = "loop", !.i = 1]}
    /\ UNCHANGED <<relVars, lockVars, mainVars, draftVars, storeVars, traceListeners, queues,
                   streams, received, published>>

\* "select { case ch <- event: default: }" on a channel whose buffer holds q.
SelectSend(q, event) == IF Len(q) < QueueCap THEN Append(q, event) ELSE q

\* The same statement as a blocking send: it waits for room.
BroadcastSend_Blocking(b) ==
    /\ b \in broadcasts
    /\ b.pc = "loop"
    /\ b.i <= Len(traceListeners)
    /\ Len(queues[traceListeners[b.i]]) < QueueCap
    /\ queues' = [queues EXCEPT ![traceListeners[b.i]] = Append(@, b.event)]
    /\ broadcasts' = (broadcasts \ {b}) \cup {[b EXCEPT !.i = b.i + 1]}
    /\ UNCHANGED <<relVars, lockVars, mainVars, draftVars, storeVars, traceListeners, streams,
                   received, published>>

\* One iteration of BroadcastTraceEvent's loop over s.traceListeners.
BroadcastSend(b) ==
    /\ b \in broadcasts
    /\ b.pc = "loop"
    /\ b.i <= Len(traceListeners)
    /\ queues' = [queues EXCEPT ![traceListeners[b.i]] = SelectSend(@, b.event)]
    /\ broadcasts' = (broadcasts \ {b}) \cup {[b EXCEPT !.i = b.i + 1]}
    /\ UNCHANGED <<relVars, lockVars, mainVars, draftVars, storeVars, traceListeners, streams,
                   received, published>>

\* The loop is over: the deferred RUnlock runs and the call returns.
BroadcastReturn(b) ==
    /\ b \in broadcasts
    /\ b.pc = "loop"
    /\ b.i > Len(traceListeners)
    /\ broadcasts' = broadcasts \ {b}
    /\ UNCHANGED <<relVars, lockVars, mainVars, draftVars, storeVars, traceListeners, queues,
                   streams, received, published>>

\* StreamTraces is called: it makes its channel and appends it to
\* s.traceListeners under the write lock.
StreamTraces(s) ==
    /\ streams[s].pc = "idle"
    /\ ~ReadLocked
    /\ traceListeners' = Append(traceListeners, s)
    /\ streams' = [streams EXCEPT ![s].pc = "range"]
    /\ UNCHANGED <<relVars, lockVars, mainVars, draftVars, storeVars, queues, received, broadcasts,
                   published>>

\* The client of the stream cancels its context.
CancelStream(s) ==
    /\ streams[s].pc = "range"
    /\ ~streams[s].cancelled
    /\ streams' = [streams EXCEPT ![s].cancelled = TRUE]
    /\ UNCHANGED <<relVars, lockVars, mainVars, draftVars, storeVars, traceListeners, queues,
                   received, broadcasts, published>>

\* One iteration of "for event := range ch": an event is taken from the
\* channel and handed to stream.Send, which fails once the client has
\* cancelled; the handler then returns the error.
StreamSend(s) ==
    /\ streams[s].pc = "range"
    /\ queues[s] # <<>>
    /\ queues' = [queues EXCEPT ![s] = Tail(@)]
    /\ IF streams[s].cancelled
       THEN /\ streams' = [streams EXCEPT ![s].pc = "deferred"]
            /\ UNCHANGED received
       ELSE /\ received' = [received EXCEPT ![s] = Append(@, Head(queues[s]))]
            /\ UNCHANGED streams
    /\ UNCHANGED <<relVars, lockVars, mainVars, draftVars, storeVars, traceListeners, broadcasts,
                   published>>

\* The removal loop that finds nothing to remove.
RemoveListener_Keep(l, ch) == l

\* s.traceListeners without the first occurrence of ch.
RemoveListener(l, ch) ==
    IF \E i \in DOMAIN l : l[i] = ch
    THEN LET i == CHOOSE k \in DOMAIN l : l[k] = ch /\ \A j \in 1..(k - 1) : l[j] # ch
         IN  SubSeq(l, 1, i - 1) \o SubSeq(l, i + 1, Len(l))
    ELSE l

\* The deferred function of StreamTraces, its locked part: under the write
\* lock the channel is removed from s.traceListeners.
StreamDeferred(s) ==
    /\ streams[s].pc = "deferred"
    /\ ~ReadLocked
    /\ traceListeners' = RemoveListener(traceListeners, s)
    /\ streams' = [streams EXCEPT ![s].pc = "closing"]
    /\ UNCHANGED <<relVars, lockVars, mainVars, draftVars, storeVars, queues, received, broadcasts,
                   published>>

\* The deferred function after s.mu.Unlock(): close(ch), with no lock held;
\* the handler has returned.
StreamClose(s) ==
    /\ streams[s].pc = "closing"
    /\ streams' = [streams EXCEPT ![s].pc = "done"]
    /\ UNCHANGED <<relVars, lockVars, mainVars, draftVars, storeVars, traceListeners, queues,
                   received, broadcasts, published>>

BusTraceIds == {TraceA}

NextBus ==
    \/ \E t \in BusTraceIds : GoBroadcastTrace(t, "svc-a", "/order")
    \/ \E t \in BusTraceIds, st \in {"frozen", "released"} : BroadcastFreezeEvent(t, st)
    \/ \E b \in broadcasts : BroadcastRLock(b)
    \/ \E b \in broadcasts : BroadcastSend(b)
    \/ \E b \in broadcasts : BroadcastReturn(b)
    \/ \E s \in Subscribers : StreamTraces(s)
    \/ \E s \in Subscribers : CancelStream(s)
    \/ \E s \in Subscribers : StreamSend(s)
    \/ \E s \in Subscribers : StreamDeferred(s)
    \/ \E s \in Subscribers : StreamClose(s)

SpecBus == Init /\ [][NextBus]_vars

\* The goroutines the Go scheduler runs are not starved: a broadcast that
\* can take a step takes it, and so does a stream handler that has been
\* called.  Nothing makes a publisher publish, or a client call or cancel.
FairSpecBus ==
    /\ SpecBus
    /\ WF_vars(\E b \in broadcasts : BroadcastRLock(b) \/ BroadcastSend(b) \/ BroadcastReturn(b))
    /\ \A s \in Subscribers :
          WF_vars(StreamSend(s) \/ StreamDeferred(s) \/ StreamClose(s))

(***************************************************************************)
(* Inspection of frozen traces: two traces are frozen by matching          *)
(* breakpoints, the sidecars post their snapshots, the developer releases  *)
(* the traces and freezes them again.                                      *)
(***************************************************************************)
InitInspect ==
    /\ breakPoints = EmptyMap
    /\ frozenTraces = [t \in RpcTraceIds |-> TRUE]
    /\ releaseOverrides = EmptyMap
    /\ ctx = [r \in Slots |-> NoCtx]
    /\ call = [r \in Slots |-> NoCall]
    /\ handedOut = [t \in TraceIds |-> 0]
    /\ lastFreeze = NoRpc
    /\ heap = <<>>
    /\ freezes = EmptyMap
    /\ execs = EmptyMap
    /\ timers = {}
    /\ graces = {}
    /\ snapshots = EmptyMap
    /\ appSnapshots = EmptyMap
    /\ lastEmergency = NoEmergency
    /\ answered = [r \in Slots |-> 0]
    /\ lastPost = NoPost
    /\ traceListeners = <<>>
    /\ queues = [s \in Subscribers |-> <<>>]
    /\ streams = [s \in Subscribers |-> NoStream]
    /\ received = [s \in Subscribers |-> <<>>]
    /\ broadcasts = {}
    /\ published = <<>>
    /\ lastRelease = [t \in TraceIds |-> "none"]
    /\ cpMu = NoMu
    /\ fcMu = NoMu
    /\ handlers = [h \in LockHandlers |-> 0]

NextInspect ==
    \/ \E body \in SnapshotInputs \cup {Invalid} : PostSnapshot(body)
    \/ \E t \in RpcTraceIds : FreezeTrace(t)
    \/ \E t \in RpcTraceIds, o \in Overrides : ReleaseTrace(t, o)

SpecInspect == InitInspect /\ [][NextInspect]_vars

(***************************************************************************)
(* Topology: services push application snapshots, GetTopology derives the  *)
(* links between them.                                                     *)
(***************************************************************************)
sArrow == <<"-", ">">>

\* The service names the snapshots carry: two plain names, and two names
\* that contain the text "->".
TopologyServices ==
    { <<"a">>, <<"c">>, <<"a">> \o sArrow \o <<"b">>, <<"b">> \o sArrow \o <<"c">> }

\* linkKey := source + "->" + target
linkKey(source, target) == source \o sArrow \o target

\* The loop over the snapshots of one trace, from index i on: linksMap holds
\* the keys seen, links the links appended.
RECURSIVE TraceLinks(_, _, _, _)
TraceLinks(snaps, i, linksMap, links) ==
    IF i > Len(snaps) - 1 THEN [linksMap |-> linksMap, links |-> links]
    ELSE LET source == snaps[i].ServiceName
             target == snaps[i + 1].ServiceName
         IN  IF source = target \/ linkKey(source, target) \in linksMap
             THEN TraceLinks(snaps, i + 1, linksMap, links)
             ELSE TraceLinks(snaps, i + 1, linksMap \cup {linkKey(source, target)},
                             Append(links, [Source |-> source, Target |-> target]))

\* The loop over s.appSnapshots, in the order o the range statement visits
\* the traces, from trace k on.
RECURSIVE AllLinks(_, _, _, _)
AllLinks(o, k, linksMap, links) ==
    IF k > Len(o) THEN links
    ELSE LET snaps == appSnapshots[o[k]]
         IN  IF Len(snaps) < 2 THEN AllLinks(o, k + 1, linksMap, links)
             ELSE LET res == TraceLinks(snaps, 1, linksMap, links)
                  IN  AllLinks(o, k + 1, res.linksMap, res.links)

\* GetTopology: the lists of links it may return, one per iteration order of
\* the map.
GetTopology == {AllLinks(o, 1, {}, <<>>) : o \in Orders(DOMAIN appSnapshots)}

NextTopology ==
    \E body \in { [TraceID |-> t, ServiceName |-> sv, Checkpoint |-> "checkpoint",
                   StackTrace |-> "main.handler", LocalVars |-> EmptyMap,
                   Timestamp |-> "12:00:00"] :
                    t \in StoreTraceIds, sv \in TopologyServices } \cup {Invalid} :
       PostAppSnapshot(body)

SpecTopology == Init /\ [][NextTopology]_vars

(***************************************************************************)
(* The locks of the control plane (main.go 110-137, 232-257, 336-347;      *)
(* freeze_coordinator.go 298-327).  cp.mu and fc.mu are sync.RWMutex: Lock *)
(* takes the inner mutex rw.w and announces the writer, then waits for the *)
(* read locks held to be given back; from the announcement to Unlock every *)
(* RLock blocks, the RLock of a goroutine that holds a read lock included. *)
(* A handler is the sequence of lock operations its code performs.         *)
(***************************************************************************)

\* The lock operations of a handler, in program order.  The /check handler
\* whose request matches a breakpoint: IsTraceFrozen, the breakpoint loop
\* under cp.mu.RLock, InitiateFreeze under fc.mu, its broadcast under
\* cp.mu.RLock, and the deferred unlocks in reverse order.  ReleaseFreeze of
\* a frozen trace: fc.mu, then the broadcast under cp.mu.RLock.
\* RegisterBreakpoint: the map write under cp.mu.
LockProgram(h) ==
    LET CheckLocks ==
            << [op |-> "RLock",   mu |-> "fc"],    \* IsTraceFrozen
               [op |-> "RUnlock", mu |-> "fc"],
               [op |-> "RLock",   mu |-> "cp"],    \* the breakpoint loop
               [op |-> "Lock",    mu |-> "fc"],    \* InitiateFreeze
               [op |-> "Acquire", mu |-> "fc"],
               [op |-> "RLock",   mu |-> "cp"],    \* BroadcastTraceEvent
               [op |-> "RUnlock", mu |-> "cp"],
               [op |-> "Unlock",  mu |-> "fc"],
               [op |-> "RUnlock", mu |-> "cp"] >>
        ReleaseLocks ==
            << [op |-> "Lock",    mu |-> "fc"],
               [op |-> "Acquire", mu |-> "fc"],
               [op |-> "RLock",   mu |-> "cp"],    \* BroadcastTraceEvent
               [op |-> "RUnlock", mu |-> "cp"],
               [op |-> "Unlock",  mu |-> "fc"] >>
        RegisterLocks ==
            << [op |-> "Lock",    mu |-> "cp"],
               [op |-> "Acquire", mu |-> "cp"],
               [op |-> "Unlock",  mu |-> "cp"] >>
    IN  CASE h = "release"  -> ReleaseLocks
          [] h = "register" -> RegisterLocks
          [] OTHER          -> CheckLocks

\* The lock operation a handler executes next; "none" outside a call.
NextLockOp(h) ==
    IF handlers[h] = 0 THEN [op |-> "none", mu |-> "none"]
    ELSE LockProgram(h)[handlers[h]]

\* The mutex an operation names.
MuOf(name) == IF name = "cp" THEN cpMu ELSE fcMu

\* The handler after its operation: the next one, or out of the call.
Advance(h) ==
    [handlers EXCEPT ![h] = IF @ = Len(LockProgram(h)) THEN 0 ELSE @ + 1]

\* The two mutexes after one of them has become m.
SetMu(name, m) ==
    /\ cpMu' = IF name = "cp" THEN m ELSE cpMu
    /\ fcMu' = IF name = "fc" THEN m ELSE fcMu

\* A request, or an RPC, reaches its handler.
HandlerStart(h) ==
    /\ handlers[h] = 0
    /\ handlers' = [handlers EXCEPT ![h] = 1]
    /\ UNCHANGED <<cpMu, fcMu>>
    /\ UNCHANGED <<relVars, mainVars, draftVars, storeVars, busVars>>

\* mu.RLock(): it returns when no writer holds rw.w (readerCount is
\* negative from the writer's announcement to its Unlock), whether or not
\* the caller holds a read lock.
MuRLock(h) ==
    LET i == NextLockOp(h)
        m == MuOf(i.mu)
    IN  /\ i.op = "RLock"
        /\ m.w = "none"
        /\ SetMu(i.mu, [m EXCEPT !.readers[h] = @ + 1])
        /\ handlers' = Advance(h)
        /\ UNCHANGED <<relVars, mainVars, draftVars, storeVars, busVars>>

\* mu.RUnlock()
MuRUnlock(h) ==
    LET i == NextLockOp(h)
        m == MuOf(i.mu)
    IN  /\ i.op = "RUnlock"
        /\ SetMu(i.mu, [m EXCEPT !.readers[h] = @ - 1])
        /\ handlers' = Advance(h)
        /\ UNCHANGED <<relVars, mainVars, draftVars, storeVars, busVars>>

\* mu.Lock(), first half: rw.w taken and the writer announced.
MuLock(h) ==
    LET i == NextLockOp(h)
        m == MuOf(i.mu)
    IN  /\ i.op = "Lock"
        /\ m.w = "none"
        /\ SetMu(i.mu, [m EXCEPT !.w = h])
        /\ handlers' = Advance(h)
        /\ UNCHANGED <<relVars, mainVars, draftVars, storeVars, busVars>>

\* mu.Lock(), second half: the read locks held have been given back.
MuLockAcquire(h) ==
    LET i == NextLockOp(h)
        m == MuOf(i.mu)
    IN  /\ i.op = "Acquire"
        /\ \A g \in LockHandlers : m.readers[g] = 0
        /\ handlers' = Advance(h)
        /\ UNCHANGED <<cpMu, fcMu>>
        /\ UNCHANGED <<relVars, mainVars, draftVars, storeVars, busVars>>

\* mu.Unlock()
MuUnlock(h) ==
    LET i == NextLockOp(h)
        m == MuOf(i.mu)
    IN  /\ i.op = "Unlock"
        /\ SetMu(i.mu, [m EXCEPT !.w = "none"])
        /\ handlers' = Advance(h)
        /\ UNCHANGED <<relVars, mainVars, draftVars, storeVars, busVars>>

NextLocks ==
    \/ \E h \in LockHandlers : HandlerStart(h)
    \/ \E h \in LockHandlers : MuRLock(h)
    \/ \E h \in LockHandlers : MuRUnlock(h)
    \/ \E h \in LockHandlers : MuLock(h)
    \/ \E h \in LockHandlers : MuLockAcquire(h)
    \/ \E h \in LockHandlers : MuUnlock(h)

SpecLocks == Init /\ [][NextLocks]_vars

\* The Go scheduler runs every goroutine that can run, and sync.Mutex hands
\* a lock to a goroutine that has starved on it: a handler whose next
\* operation can return again and again does return.
FairSpecLocks ==
    /\ SpecLocks
    /\ \A h \in LockHandlers :
          SF_vars(MuRLock(h) \/ MuRUnlock(h) \/ MuLock(h) \/ MuLockAcquire(h)
                      \/ MuUnlock(h))

(***************************************************************************)
(* Freeze and release cycles on one trace, with the requests of the trace  *)
(* polling /check: no breakpoint is registered, users freeze and release   *)
(* through the RPCs, and the override of every release that took effect is *)
(* kept in lastRelease.                                                    *)
(***************************************************************************)
\* The request context the cycles are followed with.
OverrideSlots == {"r2"}

NextOverride ==
    \/ \E t \in TraceIds : FreezeTrace(t)
    \/ \E t \in TraceIds, o \in Overrides : ReleaseTraceObserved(t, o)
    \/ \E r \in OverrideSlots : CheckFrozen(r)
    \/ \E r \in OverrideSlots : CheckReleased(r)
    \/ \E r \in OverrideSlots : CheckMatch(r)
    \/ \E r \in OverrideSlots : CheckRespond(r)
    \/ \E r \in OverrideSlots : \E name \in SlotRequests[r] : OnHttpRequestHeaders(r, name)
    \/ \E r \in OverrideSlots, e \in BOOLEAN : OnHttpRequestBody(r, e)
    \/ \E r \in OverrideSlots, o \in Outcomes : OnCheckResponse(r, o)

SpecOverride == Init /\ [][NextOverride]_vars

(***************************************************************************)
(* Properties.                                                             *)
(***************************************************************************)

\* C1: the freeze registry holds at most one freeze record per trace id,
\* whatever FreezeTrace, match-triggered InitiateFreeze, ReleaseFreeze, the
\* timeout release and the grace-period deletion have done.
C1_OneRecordPerTrace ==
    \A t \in DraftTraceIds :
        Cardinality({k \in DOMAIN freezes : heap[freezes[k]].TraceID = t}) <= 1

\* A trace was frozen, released and deleted, and is registered again: two
\* records were made for it and the registry holds one.
C1_Witness ==
    \E t \in DraftTraceIds :
        /\ t \in DOMAIN freezes
        /\ Cardinality({a \in DOMAIN heap : heap[a].TraceID = t}) >= 2
        /\ \E a \in DOMAIN heap : heap[a].TraceID = t /\ heap[a].State = "completed"

\* C2: a /check call whose handler starts while its trace is frozen answers
\* "freeze", whatever the query carries and whatever breakpoints exist.
C2_FrozenTraceAnswersFreeze ==
    \A r \in Slots :
        call[r].pc = "resp" /\ call[r].startedIn = "frozen"
            => call[r].resp.action = "freeze"

\* A /check of the health request (it matches no breakpoint) started on a
\* frozen trace with no breakpoint registered, and it was answered.
C2_Witness ==
    \E r \in Slots :
        /\ call[r].pc = "resp" /\ call[r].startedIn = "frozen"
        /\ ctx[r].req = "health" /\ DOMAIN breakPoints = {}

\* C3: the poll a suspended request issues after its trace was released is
\* not answered "freeze" (the trace is not frozen when it is issued nor when
\* its handler starts).
C3_PollAfterReleaseResumes ==
    \A r \in Slots :
        call[r].pc = "resp" /\ call[r].afterRelease /\ call[r].startedIn # "frozen"
            => call[r].resp.action # "freeze"

C5_UntaggedBypasses ==
    \A r \in Slots :
        ctx[r].phase # "free" /\ ctx[r].traceID = <<>>
            => /\ call[r].pc = "none"
               /\ ctx[r].phase \in {"body", "done"}
               /\ ctx[r].resumed = "no"

\* An untagged request with a body went through both phases.
C5_Witness ==
    \E r \in Slots :
        ctx[r].req = "plain" /\ ctx[r].traceID = <<>> /\ ctx[r].phase = "done"

\* C6: a freeze that GetFreezeStatus reports frozen is eventually reported
\* not_found, whether or not a user releases it.
C6_FreezeTimesOut ==
    \A t \in TraceIds :
        (GetFreezeStatus(t) = "frozen") ~> (GetFreezeStatus(t) = "not_found")

\* C7: an InitiateFreeze call made from /check on a trace that has a freeze
\* returns the AlreadyExists error.
C7_SecondInitiateFails ==
    \A r \in Slots :
        call[r].initOn = "present" => call[r].initErr = "AlreadyExists"

\* C8: FreezeTrace on a trace that has a freeze answers success=false and
\* broadcasts no lifecycle event.
C8_FreezeTraceOnFrozen ==
    lastFreeze.rpc = "FreezeTrace" /\ lastFreeze.active
        => lastFreeze.success = FALSE /\ lastFreeze.event = "none"

C10_OverrideHandedOutOnce ==
    \A t \in TraceIds : handedOut[t] <= 1

\* Two polls of one trace were answered allow after one release, one with
\* the override and one without.
C10_Witness ==
    /\ \A r \in Slots : call[r].pc = "resp" /\ call[r].resp.action = "allow"
                         /\ ctx[r].traceID = TraceA /\ ctx[r].snapshotSent
    /\ \E r \in Slots : call[r].resp.override_body = "FIXED"
    /\ \E r \in Slots : call[r].resp.override_body = ""
    /\ handedOut[TraceA] = 1

C12_SnapshotSentAtMostOnce ==
    \A r \in Slots : Len(ctx[r].snapshotCalls) <= 1

\* A request has handled its second freeze answer in a row and polls again,
\* with one snapshot dispatched.
C12_Witness ==
    \E r \in Slots :
        /\ answered[r] >= 2
        /\ ctx[r].phase = "paused"
        /\ call[r].pc = "sent"
        /\ Len(ctx[r].snapshotCalls) = 1

\* C13: the network snapshot store is first-write-wins per trace: once a
\* snapshot is stored for a trace, no later POST /snapshot changes what
\* GetSnapshot returns for that trace.
C13_FirstWriteWins ==
    [][\A t \in StoreTraceIds :
          GetSnapshot(t).Success => GetSnapshot(t)' = GetSnapshot(t)]_vars

\* C14: GetAppSnapshot returns the application snapshots accepted for the
\* trace in acceptance order: an accepted POST /app-snapshot extends the
\* answer for its trace by its own snapshot at the end, and changes the
\* answer for no other trace.
C14_AppSnapshotsInAcceptanceOrder ==
    [][\A body \in AppSnapshotInputs :
          PostAppSnapshot(body) =>
             \A t \in StoreTraceIds :
                GetAppSnapshot(t)'.Snapshots =
                   IF t = body.TraceID
                   THEN Append(GetAppSnapshot(t).Snapshots, ProtoAppSnapshot(body))
                   ELSE GetAppSnapshot(t).Snapshots]_vars

\* A trace holds the snapshots of two services in the order svc-b, svc-a
\* while the other trace holds them in the order svc-a, svc-b.
C14_Witness ==
    /\ GetAppSnapshot(TraceA).Success /\ GetAppSnapshot(TraceB).Success
    /\ Len(GetAppSnapshot(TraceA).Snapshots) = 2
    /\ GetAppSnapshot(TraceA).Snapshots[1].ServiceName = "svc-b"
    /\ GetAppSnapshot(TraceA).Snapshots[2].ServiceName = "svc-a"
    /\ Len(GetAppSnapshot(TraceB).Snapshots) = 2
    /\ GetAppSnapshot(TraceB).Snapshots[1].ServiceName = "svc-a"
    /\ GetAppSnapshot(TraceB).Snapshots[2].ServiceName = "svc-b"

\* C15: freezing a trace does not affect other traffic: the /check decision
\* for a request on another trace is one its own query and the registry
\* allow, whether or not the first trace is frozen or has a pending
\* override; a request that matches no breakpoint is allowed on its first
\* /check, and no override of the other trace is handed to it.
C15_OtherTraceUnaffected ==
    \A r \in Slots :
        call[r].pc = "resp" =>
           LET q     == QueryOf(r)
               hit(data) == \E id \in DOMAIN breakPoints :
                               BreakpointMatches(breakPoints[id], q, data)
               canMatch == q.service # "" /\ \E data \in SearchableData(q) : hit(data)
               canMiss  == q.service = "" \/ \E data \in SearchableData(q) : ~hit(data)
           IN  /\ call[r].resp.action = "freeze" => canMatch
               /\ call[r].resp.action = "allow" => canMiss
               /\ call[r].resp.action \in {"allow", "freeze"}
               /\ call[r].resp.override_body = ""

\* While the other trace is frozen and has a pending override, a request
\* that matches none of the registered breakpoints has been allowed.
C15_Witness ==
    /\ TraceB \in DOMAIN frozenTraces
    /\ TraceB \in DOMAIN releaseOverrides
    /\ call["r1"].pc = "resp"
    /\ call["r1"].resp.action = "allow"
    /\ ctx["r1"].req = "health"
    /\ breakPoints # EmptyMap

\* C16: for a query on a trace that is neither frozen nor released, the
\* match engine initiates a freeze iff some registered enabled breakpoint
\* has the query's service, an endpoint that is a substring of the query's
\* endpoint, and conditions that all equal the keyspace value of their key.
C16_FreezeIffBreakpointMatches ==
    \A r \in Slots :
        call[r].pc = "respond" /\ call[r].startedIn = "idle" =>
           LET q == QueryOf(r)
               sub(s, e) == \E i \in 0..(Len(e) - Len(s)) :
                               \A j \in 1..Len(s) : e[i + j] = s[j]
               matches(bp, data) ==
                   /\ bp.Enabled
                   /\ bp.ServiceName = q.service
                   /\ sub(bp.EndPoint, q.endpoint)
                   /\ \A k \in DOMAIN bp.Conditions :
                         k \in DOMAIN data /\ data[k] = bp.Conditions[k]
               some(data) == \E id \in DOMAIN breakPoints :
                                matches(breakPoints[id], data)
           IN  /\ call[r].initOn # "none" =>
                     \E data \in SearchableData(q) : some(data)
               /\ call[r].initOn = "none" =>
                     \E data \in SearchableData(q) : ~some(data)

\* C16 as it holds: the same, for a query whose service name is not empty;
\* a query with an empty service name initiates no freeze.
C16_FreezeIffMatchesNamedService ==
    \A r \in Slots :
        call[r].pc = "respond" /\ call[r].startedIn = "idle" =>
           LET q == QueryOf(r)
               sub(s, e) == \E i \in 0..(Len(e) - Len(s)) :
                               \A j \in 1..Len(s) : e[i + j] = s[j]
               matches(bp, data) ==
                   /\ bp.Enabled
                   /\ bp.ServiceName = q.service
                   /\ sub(bp.EndPoint, q.endpoint)
                   /\ \A k \in DOMAIN bp.Conditions :
                         k \in DOMAIN data /\ data[k] = bp.Conditions[k]
               some(data) == \E id \in DOMAIN breakPoints :
                                matches(breakPoints[id], data)
           IN  IF q.service = "" THEN call[r].initOn = "none"
               ELSE /\ call[r].initOn # "none" =>
                          \E data \in SearchableData(q) : some(data)
                    /\ call[r].initOn = "none" =>
                          \E data \in SearchableData(q) : ~some(data)

\* The order request (endpoint /api/order/1) has initiated a freeze through
\* the one registered breakpoint, whose endpoint is /order.
C16_Witness ==
    /\ call["r1"].pc = "respond"
    /\ call["r1"].startedIn = "idle"
    /\ call["r1"].initOn = "absent"
    /\ ctx["r1"].req = "order"
    /\ DOMAIN breakPoints = {"bp1"}
    /\ breakPoints["bp1"].EndPoint = sOrder

\* C17: when an original header and a body leaf produce the same short key,
\* a condition on that short key is tested against the body value, whatever
\* order the headers are visited in: with only such conditions registered,
\* a freeze is initiated iff some breakpoint's expected values are the body
\* values.
C17_ShortKeyTakesBodyValue ==
    \A r \in Slots :
        call[r].pc = "respond" /\ call[r].startedIn = "idle" =>
           LET rq == Requests[ctx[r].req]
               q  == QueryOf(r)
               inHeaders(k) == \E i \in DOMAIN rq.headers :
                                  ToLower(rq.headers[i].name) = k
               inBody(k) == /\ rq.hasBody /\ rq.body.k = "obj"
                            /\ k \in DOMAIN rq.body.v
                            /\ rq.body.v[k].k \in {"str", "num"}
               bodyValue(k) == IF rq.body.v[k].k = "num"
                               THEN Digits(rq.body.v[k].v) ELSE rq.body.v[k].v
               collide(bp) == /\ DOMAIN bp.Conditions # {}
                              /\ \A k \in DOMAIN bp.Conditions :
                                    inHeaders(k) /\ inBody(k)
           IN  (\A id \in DOMAIN breakPoints : collide(breakPoints[id])) =>
                  (call[r].initOn # "none" <=>
                     \E id \in DOMAIN breakPoints :
                        /\ breakPoints[id].ServiceName = q.service
                        /\ Contains(q.endpoint, breakPoints[id].EndPoint)
                        /\ \A k \in DOMAIN breakPoints[id].Conditions :
                              bodyValue(k) = breakPoints[id].Conditions[k])

\* A request with header amount: 5 and body amount 999 has initiated a
\* freeze through a breakpoint on amount = 999, with a breakpoint on
\* amount = 5 registered next to it.
C17_Witness ==
    /\ call["r1"].pc = "respond"
    /\ call["r1"].startedIn = "idle"
    /\ call["r1"].initOn = "absent"
    /\ ctx["r1"].req = "collide"
    /\ DOMAIN breakPoints = MatchBpIds
    /\ breakPoints["bp1"].Conditions = [x \in {sAmount} |-> Digits(5)]
    /\ breakPoints["bp2"].Conditions = [x \in {sAmount} |-> Digits(999)]

\* C18: strict key scoping: a condition on header.<name> is tested only
\* against the original header <name> and a condition on body.<path> only
\* against the body leaf at <path>: with only strict conditions registered,
\* a freeze is initiated only when some breakpoint's conditions hold of the
\* headers and body leaves they name.
C18_StrictKeysAreScoped ==
    \A r \in Slots :
        call[r].pc = "respond" /\ call[r].startedIn = "idle" =>
           LET rq == Requests[ctx[r].req]
               q  == QueryOf(r)
               strict(k) == HasPrefix(k, sHeaderDot) \/ HasPrefix(k, sBodyDot)
               holds(k, e) ==
                   IF HasPrefix(k, sHeaderDot)
                   THEN \E i \in DOMAIN rq.headers :
                           /\ ToLower(rq.headers[i].name) = TrimPrefix(k, sHeaderDot)
                           /\ rq.headers[i].value = e
                   ELSE /\ rq.hasBody /\ rq.body.k = "obj"
                        /\ <<TrimPrefix(k, sBodyDot), e>> \in flattenPairs(rq.body, <<>>)
           IN  (\A id \in DOMAIN breakPoints :
                   \A k \in DOMAIN breakPoints[id].Conditions : strict(k)) =>
                  (call[r].initOn # "none" =>
                     \E id \in DOMAIN breakPoints :
                        \A k \in DOMAIN breakPoints[id].Conditions :
                           holds(k, breakPoints[id].Conditions[k]))

\* C19: when the body of the /check call is not valid JSON, a breakpoint
\* with a condition on a body.<path> key never matches, and the handler
\* still answers allow or freeze.
C19_InvalidBodyNeverMatchesBodyKey ==
    \A r \in Slots :
        call[r].pc = "resp" /\ call[r].startedIn = "idle"
        /\ QueryOf(r).body = Invalid =>
           /\ call[r].resp.action \in {"allow", "freeze"}
           /\ (\A id \in DOMAIN breakPoints :
                  \E k \in DOMAIN breakPoints[id].Conditions : HasPrefix(k, sBodyDot))
               => call[r].resp.action = "allow"

\* C20: registry round trip: RegisterBreakpoint returns an id no existing
\* breakpoint carries; every list ListBreakpoints then returns holds exactly
\* one entry with that id, with the service, endpoint and conditions of the
\* request, and the entries it held before; after DeleteBreakpoint of an id
\* no entry carries it and every other entry is as before.
C20_RegistryRoundTrip ==
    [][\A id \in MatchBpIds :
          /\ \A in \in MatchBpInputs :
                RegisterBreakpointWith(id, in) =>
                   /\ RegisterBreakpointResponse(id).success
                   /\ \A l \in ListBreakpoints : \A i \in DOMAIN l :
                         l[i].Id # RegisterBreakpointResponse(id).breakpoint_id
                   /\ \A l \in ListBreakpoints' :
                         /\ Cardinality({i \in DOMAIN l : l[i].Id = id}) = 1
                         /\ \A i \in DOMAIN l :
                               l[i].Id = id =>
                                  /\ l[i].ServiceName = in.ServiceName
                                  /\ l[i].Endpoint = in.EndPoint
                                  /\ l[i].Conditions = in.Conditions
                   /\ {{l[i] : i \in DOMAIN l} : l \in ListBreakpoints'} =
                      {{l[i] : i \in DOMAIN l} \cup
                          {[Id |-> id, ServiceName |-> in.ServiceName,
                            Endpoint |-> in.EndPoint,
                            Conditions |-> in.Conditions, Enabled |-> TRUE]} :
                       l \in ListBreakpoints}
          /\ DeleteBreakPoint(id) /\ DeleteBreakPointResponse(id).success =>
                /\ \A l \in ListBreakpoints' : \A i \in DOMAIN l : l[i].Id # id
                /\ {{l[i] : i \in DOMAIN l} : l \in ListBreakpoints'} =
                   {{l[i] : i \in DOMAIN l} \ {e \in {l[i] : i \in DOMAIN l} : e.Id = id} :
                    l \in ListBreakpoints}]_vars

\* Two breakpoints with different conditions are registered and listed.
C20_Witness ==
    /\ DOMAIN breakPoints = MatchBpIds
    /\ breakPoints["bp1"].Conditions # breakPoints["bp2"].Conditions
    /\ breakPoints["bp1"].Conditions # EmptyMap
    /\ \A l \in ListBreakpoints : Len(l) = 2

\* C21: operations on absent objects answer not-found and change nothing:
\* ReleaseTrace of a trace without a freeze answers success = false, stores
\* no override and broadcasts no event, GetFreezeStatus of it reports
\* not_found; DeleteBreakpoint of an unknown id answers success = false and
\* leaves the registry as it is.
C21_AbsentObjectsNotFound ==
    [][/\ \A t \in RpcTraceIds, o \in Overrides :
             ReleaseTrace(t, o) /\ t \notin DOMAIN frozenTraces =>
                /\ ReleaseTraceResponse(t, o).success = FALSE
                /\ ReleaseTraceResponse(t, o).event = "none"
                /\ releaseOverrides' = releaseOverrides
                /\ frozenTraces' = frozenTraces
                /\ GetFreezeStatus(t) = "not_found"
       /\ \A id \in MatchBpIds :
             DeleteBreakPoint(id) /\ id \notin DOMAIN breakPoints =>
                /\ DeleteBreakPointResponse(id).success = FALSE
                /\ breakPoints' = breakPoints]_vars

C23_PerSubscriberPublishOrder ==
    \A s \in Subscribers :
        \A i, j \in DOMAIN received[s] :
            i < j => received[s][i].id < received[s][j].id

\* C24: once the client of a stream has cancelled, the StreamTraces handler
\* eventually returns and its channel is no longer in s.traceListeners,
\* whether or not another event is published.
C24_CancelledStreamTerminates ==
    \A s \in Subscribers :
        streams[s].cancelled ~>
            (streams[s].pc = "done" /\ \A i \in DOMAIN traceListeners : traceListeners[i] # s)

\* C25: a release without override leaves the stored network snapshot of the
\* trace retrievable by GetSnapshot, as does every other step; after the
\* release GetFreezeStatus of the trace reports not_found, and it goes on
\* reporting not_found until a step that freezes the trace again.
C25_SnapshotOutlivesRelease ==
    [][\A t \in RpcTraceIds :
          /\ ReleaseTrace(t, "") /\ t \in DOMAIN frozenTraces =>
                /\ GetSnapshot(t)' = GetSnapshot(t)
                /\ GetFreezeStatus(t)' = "not_found"
          /\ GetSnapshot(t).Success => GetSnapshot(t)'.Success
          /\ GetFreezeStatus(t) = "not_found" /\ GetFreezeStatus(t)' # "not_found" =>
                frozenTraces' = InitiateFreeze(t).frozen]_vars

\* A frozen trace whose snapshot was stored has been released without
\* override and not frozen since: the snapshot is there, the status is
\* not_found.
C25_Witness ==
    /\ TraceA \notin DOMAIN frozenTraces
    /\ TraceA \notin DOMAIN releaseOverrides
    /\ lastFreeze = NoRpc
    /\ GetSnapshot(TraceA).Success
    /\ GetSnapshot(TraceA).Snapshot.trace_id = TraceA
    /\ GetFreezeStatus(TraceA) = "not_found"

\* C26: a POST to /snapshot or /app-snapshot whose body does not decode is
\* answered with a 4xx status (and stores nothing).
C26_UndecodableBodyRejected ==
    lastPost.path # "none" /\ ~lastPost.decoded => lastPost.status \in 400..499

\* C27: the sidecar takes the trace id from the first of traceparent,
\* x-b3-traceid and x-trace-id that yields one: a request that carries a
\* non-empty x-trace-id is tagged with a trace id, and a request with a
\* well-formed traceparent is tagged with the 32 characters of its trace-id
\* field.
C27_TraceIdFromAnyTraceHeader ==
    \A r \in Slots :
        ctx[r].req # "none" =>
            LET rq == Requests[ctx[r].req]
                x  == GetHttpRequestHeader(rq, <<"x", "-", "t", "r", "a", "c", "e", "-", "i", "d">>)
                tp == GetHttpRequestHeader(rq, sTraceparent)
            IN  /\ x.ok /\ x.value # <<>> => ctx[r].traceID # <<>>
                /\ tp.ok /\ (\E c \in {"a", "b"} : tp.value = Traceparent(c)) =>
                      ctx[r].traceID = SubSeq(tp.value, 4, 35)

\* C28: an allow answer with a non-empty override_body resumes the request
\* with that body and with content-length equal to its length; an allow
\* answer without one resumes it with the body it had.
C28_OverrideBodyAndLength ==
    [][\A r \in Slots :
          OnCheckResponse(r, "ok") /\ call[r].pc = "resp" /\ call[r].resp.action # "freeze" =>
             LET o == call[r].resp.override_body
             IN  /\ ctx'[r].phase = "done"
                 /\ o # "" => /\ ctx'[r].body = o
                              /\ ctx'[r].contentLength = Digits(OverrideLen(o))
                 /\ o = "" => ctx'[r].body = ctx[r].body]_vars

\* C29: in the two-phase coordinator the state of a freeze record only moves
\* along preparing -> frozen -> releasing -> completed, or to failed from
\* preparing or frozen: no step moves it backwards, out of completed or out of
\* failed, and a record that was aborted is never frozen.  A release passes
\* through releasing inside one locked call, so it shows as frozen ->
\* completed.
C29_StateMovesForward ==
    [][\A a \in DOMAIN heap :
          \/ heap'[a].State = heap[a].State
          \/ <<heap[a].State, heap'[a].State>> \in
                {<<"preparing", "frozen">>, <<"frozen", "releasing">>,
                 <<"releasing", "completed">>, <<"frozen", "completed">>,
                 <<"preparing", "failed">>, <<"frozen", "failed">>}]_vars

\* One record was frozen and released, another was aborted, and a third
\* record of the trace whose freeze was aborted is frozen.
C29_Witness ==
    \E a, b, c \in DOMAIN heap :
        /\ heap[a].State = "completed"
        /\ heap[b].State = "failed"
        /\ heap[c].State = "frozen"
        /\ heap[c].TraceID = heap[b].TraceID
        /\ b < c

\* C30: lifecycle events follow the lifecycle: a FreezeTrace broadcasts a
\* frozen event when the trace was not frozen and nothing when it was, a
\* ReleaseTrace broadcasts a released event when the trace was frozen and
\* nothing when it was not, so that the events of a trace alternate frozen,
\* released, frozen, ...
C30_EventsTrackLifecycle ==
    [][\A t \in RpcTraceIds :
          /\ FreezeTrace(t) =>
                FreezeTraceResponse(t).event =
                    IF t \in DOMAIN frozenTraces THEN "none" ELSE "frozen"
          /\ \A o \in Overrides :
                ReleaseTrace(t, o) =>
                    ReleaseTraceResponse(t, o).event =
                        IF t \in DOMAIN frozenTraces THEN "released" ELSE "none"]_vars

\* C31: the three read views of the freeze registry agree for every trace:
\* IsTraceFrozen is true exactly when GetFreezeStatus reports frozen, and
\* exactly when ListActiveFreezes lists the trace in state frozen.
C31_ReadViewsAgree ==
    \A t \in RpcTraceIds :
        /\ IsTraceFrozen(t) <=> GetFreezeStatus(t) = "frozen"
        /\ IsTraceFrozen(t) <=>
              \E f \in ListActiveFreezes : f.TraceID = t /\ f.State = "frozen"

\* One trace is frozen in all three views while the other, frozen earlier
\* and released with an override, is frozen in none.
C31_Witness ==
    /\ IsTraceFrozen(TraceA)
    /\ GetFreezeStatus(TraceA) = "frozen"
    /\ \E f \in ListActiveFreezes : f.TraceID = TraceA
    /\ TraceB \in DOMAIN releaseOverrides
    /\ ~IsTraceFrozen(TraceB)
    /\ GetFreezeStatus(TraceB) = "not_found"
    /\ \A f \in ListActiveFreezes : f.TraceID # TraceB

\* C32: a ReleaseTrace with a non-empty override on a trace that is not
\* frozen stores nothing, so a trace gets a pending override only in a
\* release step that found it frozen.
C32_OverrideOnlyFromFrozen ==
    [][\A t \in RpcTraceIds :
          /\ \A o \in Overrides \ {""} :
                ReleaseTrace(t, o) /\ t \notin DOMAIN frozenTraces =>
                    releaseOverrides' = releaseOverrides
          /\ (t \in DOMAIN releaseOverrides' /\
                (t \notin DOMAIN releaseOverrides \/
                 releaseOverrides'[t] # releaseOverrides[t])) =>
                t \in DOMAIN frozenTraces /\ t \notin DOMAIN frozenTraces']_vars

\* A trace that was frozen has been released with an override, which is
\* pending; the other trace is not frozen and has none, and no FreezeTrace
\* has followed the latest ReleaseTrace.
C32_Witness ==
    /\ TraceA \in DOMAIN releaseOverrides
    /\ releaseOverrides[TraceA] = "FIXED"
    /\ TraceA \notin DOMAIN frozenTraces
    /\ TraceB \notin DOMAIN releaseOverrides
    /\ TraceB \notin DOMAIN frozenTraces
    /\ lastFreeze = NoRpc

\* C33: a request that has sent its /check is forwarded only by an answer
\* that is not freeze or by a failure (no response body, no action, a poll
\* that could not be dispatched), and it is never forwarded while a /check
\* call of its own is outstanding.
C33_HeldOnlyByFreeze ==
    /\ [](\A r \in Slots : call[r].pc \in {"sent", "resp"} => ctx[r].phase = "paused")
    /\ [][\A r \in Slots :
             ctx[r].phase = "paused" /\ ctx'[r].phase # "paused" =>
                /\ ctx'[r].phase = "done"
                /\ call'[r].pc = "none"
                /\ \/ /\ ctx'[r].resumed = "allow"
                      /\ call[r].pc = "resp"
                      /\ call[r].resp.action # "freeze"
                      /\ OnCheckResponse(r, "ok")
                   \/ /\ ctx'[r].resumed = "failopen"
                      /\ \/ OnCheckResponse(r, "nobody")
                         \/ OnCheckResponse(r, "noaction")
                         \/ /\ OnCheckResponse(r, "ok")
                            /\ call[r].resp.action = "freeze"]_vars

\* A request that was answered freeze, polled again and was answered allow
\* has been forwarded, and no call of its own is outstanding.
C33_Witness ==
    \E r \in Slots :
        /\ ctx[r].phase = "done"
        /\ ctx[r].resumed = "allow"
        /\ ctx[r].snapshotSent
        /\ answered[r] >= 1
        /\ call[r].pc = "none"

\* C34: GetTopology returns exactly the links (a -> b) for which some trace
\* has two consecutive application snapshots of services a then b with
\* a # b, each of them once.
C34_TopologyIsConsecutivePairs ==
    \A l \in GetTopology :
        /\ {<<l[i].Source, l[i].Target>> : i \in DOMAIN l} =
              {p \in TopologyServices \X TopologyServices :
                  /\ p[1] # p[2]
                  /\ \E t \in DOMAIN appSnapshots :
                        \E i \in 1..(Len(appSnapshots[t]) - 1) :
                            /\ appSnapshots[t][i].ServiceName = p[1]
                            /\ appSnapshots[t][i + 1].ServiceName = p[2]}
        /\ \A i, j \in DOMAIN l : l[i] = l[j] => i = j

\* C35: the control plane's locks never deadlock: whatever the interleaving
\* of /check handlers that match a breakpoint, a ReleaseFreeze and a writer
\* on cp.mu, every handler that has started acquires its locks and returns.
C35_EveryHandlerReturns ==
    \A h \in LockHandlers : (handlers[h] # 0) ~> (handlers[h] = 0)

\* C36: a release without override never mutates a request: a poll that a
\* suspended request issues after ReleaseFreeze(t, "") took effect, and that
\* is answered while that release is still the latest one of t, is answered
\* allow with an empty override_body.
C36_PlainReleaseCarriesNoOverride ==
    [][\A r \in Slots :
          /\ call[r].pc = "respond" /\ call'[r].pc = "resp"
          /\ call[r].afterRelease
          /\ call[r].releasedWith = ""
          /\ TraceOf(r) \in TraceIds
          /\ lastRelease[TraceOf(r)] = ""
          /\ ~call[r].isFrozen
          => call'[r].resp = [action |-> "allow", override_body |-> ""]]_vars

\* C37: in the two-phase coordinator the timeout timer of a freeze releases
\* only that freeze instance: the step of a timer that wakes up changes no
\* TraceFreeze but the one the timer was started for, so a later freeze of
\* the same trace id stays frozen until its own release or its own timeout.
C37_TimerReleasesOwnFreeze ==
    [][\A a \in timers :
          timers' = timers \ {a}
          => \A b \in DOMAIN heap : b # a => heap'[b] = heap[b]]_vars

\* C38: no event is ever sent on a closed subscriber channel: a channel that
\* has been closed is in s.traceListeners no more, and no BroadcastTraceEvent
\* in its loop has a closed channel at, or after, the position it sends to
\* next.
C38_NoSendOnClosedChannel ==
    /\ \A s \in Subscribers :
          streams[s].pc = "done"
              => \A i \in DOMAIN traceListeners : traceListeners[i] # s
    /\ \A b \in broadcasts :
          b.pc = "loop"
              => \A i \in b.i .. Len(traceListeners) :
                    streams[traceListeners[i]].pc # "done"

\* A handler has closed its channel while a broadcast that took the read
\* lock after the removal is still sending to the other subscriber.
C38_Witness ==
    \E s \in Subscribers, b \in broadcasts :
        /\ streams[s].pc = "done"
        /\ b.pc = "loop" /\ b.i <= Len(traceListeners)
        /\ traceListeners[b.i] # s

\* C39: for each request context at most one /check call is outstanding at
\* any time, and ResumeHttpRequest is called at most once over the life of
\* the request, whatever the phase the call is issued in, however often the
\* freeze loop polls and whichever dispatch fails.
C39_OneCheckOneResume ==
    \A r \in Slots :
        /\ ctx[r].checks \in {0, 1}
        /\ ctx[r].resumes \in {0, 1}

\* A request with a body was answered freeze twice, polled again and has
\* been resumed, once, with no call left outstanding.
C39_Witness ==
    \E r \in Slots :
        /\ ctx[r].req # "none" /\ Requests[ctx[r].req].hasBody
        /\ ctx[r].snapshotSent /\ answered[r] >= 2
        /\ ctx[r].phase = "done"
        /\ ctx[r].resumes = 1 /\ ctx[r].checks = 0

====
